---- MODULE Spec2Model ----
(***************************************************************************)
(* Mask reconstruction of cellpose/models.py: CellposeModel.eval, _run_cp  *)
(* and _compute_masks, as a state machine over small integer grids.        *)
(*                                                                         *)
(* An array is a record [rank, pl]: pl is the sequence of its 2D planes    *)
(* (one plane for rank 2, nz planes for rank 3, none for the 0-d array),   *)
(* a plane is a sequence of rows, a row a sequence of pixel values.        *)
(* A vector field is an array whose pixel values are tuples.               *)
(* A rational number is a pair <<numerator, denominator>>.                 *)
(***************************************************************************)
EXTENDS Integers, Sequences, FiniteSets, TLC

\* ------------------------------------------------------------------ bounds
ImgLy == 4
ImgLx == 4
MaxPlanes == 2
MaxLabel == 3

\* ------------------------------------------------------- program constants
\* niter of the volumetric path and numerator of the 2D budget, _run_cp
BaseNiter == 200
\* min_size default of _compute_masks
DefaultMinSize == 15
\* niter default of _compute_masks, never read by the skeleton branch
DefaultNiter == 200
\* number of values of the np.uint16 masks stack
MaskModulus == 65536
\* diam_threshold default of eval
DefaultDiamThreshold == 12
\* dist_threshold default of eval
DefaultDistThreshold == 0

\* ------------------------------------------------------------------ arrays
\* A function constructor is evaluated anew at each application by TLC;
\* AsSeq and AsMap yield the same function, evaluated once.
AsSeq(f) == f \o <<>>
AsMap(f) == f @@ <<>>

Arr2(g) == [rank |-> 2, pl |-> <<g>>]
Arr3(gs) == [rank |-> 3, pl |-> gs]
\* np.zeros(None) where numpy takes None for (): the 0-d array
ZeroD == [rank |-> 0, pl |-> <<>>]

\* np.zeros(0)
Empty1D == [rank |-> 1, pl |-> <<>>]

Shape(a) ==
    IF a.rank = 0 THEN <<>>
    ELSE IF a.rank = 1 THEN <<0>>
    ELSE IF a.rank = 2 THEN <<Len(a.pl[1]), Len(a.pl[1][1])>>
    ELSE <<Len(a.pl), Len(a.pl[1]), Len(a.pl[1][1])>>

NRows(a) == Len(a.pl[1])
NCols(a) == Len(a.pl[1][1])

\* positions <<z, y, x>> of an array
Pix(a) ==
    IF a.pl = <<>> THEN {}
    ELSE {<<z, y, x>> : z \in 1..Len(a.pl), y \in 1..NRows(a), x \in 1..NCols(a)}

At(a, q) == a.pl[q[1]][q[2]][q[3]]

\* the array of a's shape holding F(q) at position q
Build(a, F(_)) ==
    [a EXCEPT !.pl = AsSeq([z \in 1..Len(a.pl) |->
        AsSeq([y \in 1..NRows(a) |-> AsSeq([x \in 1..NCols(a) |-> F(<<z, y, x>>)])])])]

ZerosGrid(ly, lx) == AsSeq([y \in 1..ly |-> AsSeq([x \in 1..lx |-> 0])])

\* np.zeros(shape)
Zeros(shape) ==
    IF Len(shape) = 0 THEN ZeroD
    ELSE IF Len(shape) = 2 THEN Arr2(ZerosGrid(shape[1], shape[2]))
    ELSE Arr3(AsSeq([z \in 1..shape[1] |-> ZerosGrid(shape[2], shape[3])]))

\* np.any(mask)
AnyTrue(m) == \E q \in Pix(m) : At(m, q)

Abs(n) == IF n < 0 THEN -n ELSE n

\* face neighbours (connectivity 1); planar: within one plane only
Nbrs(q, planar) ==
    {<<q[1], q[2] - 1, q[3]>>, <<q[1], q[2] + 1, q[3]>>,
     <<q[1], q[2], q[3] - 1>>, <<q[1], q[2], q[3] + 1>>}
    \cup (IF planar THEN {} ELSE {<<q[1] - 1, q[2], q[3]>>, <<q[1] + 1, q[2], q[3]>>})

\* the positions of `allowed` reached from `front` through `allowed`, added to S
RECURSIVE GrowFrom(_, _, _, _)
GrowFrom(S, front, allowed, planar) ==
    LET N == (UNION {Nbrs(s, planar) : s \in front} \cap allowed) \ S
    IN IF N = {} THEN S ELSE GrowFrom(S \cup N, N, allowed, planar)

\* the positions of `allowed` connected to `S` through `allowed`
Grow(S, allowed, planar) == GrowFrom(S, S, allowed, planar)

\* ----------------------------------------------------------- Seed Selector
\* mutant of ThresholdMask: >= in place of >
ThresholdMaskInclusive(dist, thr) == Build(dist, LAMBDA q : At(dist, q) >= thr)

\* mask = dist > dist_threshold
ThresholdMask(dist, thr) == Build(dist, LAMBDA q : At(dist, q) > thr)

\* filters.apply_hysteresis_threshold(dist, low, high): the pixels above low
\* that are face-connected to a pixel above high
HysteresisMask(dist, low, high) ==
    LET lo == IF low > high THEN high ELSE low
        allowed == {q \in Pix(dist) : At(dist, q) > lo}
        seeds == {q \in Pix(dist) : At(dist, q) > high}
        keep == Grow(seeds, allowed, FALSE)
    IN Build(dist, LAMBDA q : q \in keep)

SeedSelect(dist, skel, thr) ==
    IF skel THEN HysteresisMask(dist, thr - 1, thr) ELSE ThresholdMask(dist, thr)

\* ---------------------------------------------------------- Mask Sanitizer
\* A hole is a set of background pixels of one plane, closed under face
\* adjacency, that does not touch the border of the plane and whose
\* neighbouring labelled pixels all carry one label; it takes that label.
FillHoles(a) ==
    LET bg == {q \in Pix(a) : At(a, q) = 0}
        onBorder(q) == q[2] \in {1, NRows(a)} \/ q[3] \in {1, NCols(a)}
        outside == Grow({q \in bg : onBorder(q)}, bg, TRUE)
        inner == bg \ outside
        comp(q) == Grow({q}, inner, TRUE)
        around(q) == {At(a, r) : r \in (UNION {Nbrs(c, TRUE) : c \in comp(q)}) \ bg}
        fill == AsMap([q \in inner |-> IF Cardinality(around(q)) = 1
                                       THEN CHOOSE l \in around(q) : TRUE ELSE 0])
    IN IF inner = {} THEN a
       ELSE Build(a, LAMBDA q : IF q \in inner THEN fill[q] ELSE At(a, q))

PixelCount(a, l) == Cardinality({q \in Pix(a) : At(a, q) = l})

\* instances with fewer than min_size pixels are discarded; -1 turns it off
RemoveSmall(a, min_size) ==
    LET vals == {At(a, q) : q \in Pix(a)}
        npix == AsMap([l \in vals |-> PixelCount(a, l)])
    IN Build(a, LAMBDA q : IF /\ At(a, q) > 0
                              /\ min_size # -1
                              /\ npix[At(a, q)] < min_size
                           THEN 0 ELSE At(a, q))

\* utils.fill_holes_and_remove_small_masks(mask, min_size)
FillHolesAndRemoveSmallMasks(a, min_size) == RemoveSmall(FillHoles(a), min_size)

\* mutant of Renumber: the largest value is mapped to 1, the next to 2, ...
RenumberReversed(a) ==
    LET vals == {At(a, q) : q \in Pix(a)} \ {0}
    IN Build(a, LAMBDA q : IF At(a, q) = 0 THEN 0
                           ELSE Cardinality({w \in vals : w >= At(a, q)}))

\* fastremap.renumber(mask, in_place=True): the non-zero values are mapped to
\* 1, 2, ... in the order of their first appearance in the flattened array
Renumber(a) ==
    LET ord(q) == ((q[1] - 1) * NRows(a) + (q[2] - 1)) * NCols(a) + q[3]
        vals == {At(a, q) : q \in Pix(a)} \ {0}
        first == AsMap([v \in vals |->
                    LET at == {ord(q) : q \in {r \in Pix(a) : At(a, r) = v}}
                    IN CHOOSE n \in at : \A m \in at : n <= m])
        new == AsMap([v \in vals |-> Cardinality({w \in vals : first[w] <= first[v]})])
    IN Build(a, LAMBDA q : IF At(a, q) = 0 THEN 0 ELSE new[At(a, q)])

\* ------------------------------------------------------------------ resize
\* transforms.resize_image(mask, Ly, Lx, interpolation=cv2.INTER_NEAREST):
\* every plane is resampled to ly x lx, source index floor(dst * src / dst size)
ResizeNearest(a, ly, lx) ==
    [a EXCEPT !.pl = AsSeq([z \in 1..Len(a.pl) |-> AsSeq([y \in 1..ly |->
        AsSeq([x \in 1..lx |->
            a.pl[z][((y - 1) * NRows(a)) \div ly + 1]
                   [((x - 1) * NCols(a)) \div lx + 1]])])])]

\* ------------------------------------------ outputs of the collaborators
\* Scalar fields the network can put out for a plane of ly x lx pixels
\* (values are relative to dist_threshold 0 and the hysteresis band (-1, 0]).
Patterns == <<"bg", "full", "ring", "dot", "hyst">>

DistPlane(pat, ly, lx) ==
    AsSeq([y \in 1..ly |-> AsSeq([x \in 1..lx |->
        IF pat = "bg" THEN -2
        ELSE IF pat = "full" THEN 1
        ELSE IF pat = "ring"
             THEN (IF y \in {1, ly} \/ x \in {1, lx} THEN 1 ELSE -2)
        ELSE IF pat = "dot" THEN (IF y = 1 /\ x = 1 THEN 1 ELSE -2)
        ELSE (IF x = 1 THEN 1 ELSE 0)])])

\* the pattern of plane z of a stack whose first plane has pattern number n
PatternOf(n, z) == Patterns[((n + z - 2) % Len(Patterns)) + 1]

\* a vector field without zero component, rank components per pixel
FlowPlane(rank, ly, lx) ==
    AsSeq([y \in 1..ly |-> AsSeq([x \in 1..lx |->
        IF rank = 2 THEN <<1, IF x = 1 THEN 1 ELSE -1>>
        ELSE <<1, 1, IF x = 1 THEN 1 ELSE -1>>])])

\* boundary output of a 4-class network
BoundaryPlane(ly, lx) ==
    AsSeq([y \in 1..ly |-> AsSeq([x \in 1..lx |-> IF x = 1 THEN 0 ELSE -2])])

\* Labels the Instance Clusterer (dynamics.get_masks, DBSCAN, skimage label)
\* gives the foreground pixels: none (k = 0), stripes of k labels along the
\* columns or the rows, or label 1 for the first foreground pixel in raster
\* order and label 2 for the others; background pixels get 0.
ClusterLabels(mask, kind, k) ==
    LET ord(q) == ((q[1] - 1) * NRows(mask) + (q[2] - 1)) * NCols(mask) + q[3]
        fg == {q \in Pix(mask) : At(mask, q)}
        head == CHOOSE q \in fg : \A r \in fg : ord(q) <= ord(r)
    IN Build(mask, LAMBDA q :
        IF ~At(mask, q) \/ k = 0 THEN 0
        ELSE IF kind = "col" THEN ((q[3] - 1) % k) + 1
        ELSE IF kind = "row" THEN ((q[2] - 1) % k) + 1
        ELSE IF q = head THEN 1 ELSE 2)

\* ------------------------------------------------------ numpy broadcasting
NoneV == <<>>

\* shape of a vector field: the component axis, then the spatial axes
FullShape(dPa) == <<Len(At(dPa, <<1, 1, 1>>))>> \o Shape(dPa)

Min2(a, b) == IF a < b THEN a ELSE b

\* dP * mask: the two shapes broadcast, aligned at the last axis
BroadcastOK(sa, sb) ==
    \A n \in 1..Min2(Len(sa), Len(sb)) :
        LET x == sa[Len(sa) - n + 1]
            y == sb[Len(sb) - n + 1]
        IN x = y \/ x = 1 \/ y = 1

\* dP *= mask: the result must have the shape of dP
InPlaceOK(sa, sb) ==
    /\ Len(sb) <= Len(sa)
    /\ \A n \in 1..Len(sb) :
        LET x == sa[Len(sa) - n + 1]
            y == sb[Len(sb) - n + 1]
        IN y = x \/ y = 1

\* the values of dP * mask on the grid of dP
MulMask(dPa, mask) ==
    LET pick(n, len) == IF len = 1 THEN 1 ELSE n
        on(q, c) ==
            IF mask.rank = 3 /\ dPa.rank = 2
            THEN At(mask, <<pick(c, Len(mask.pl)), pick(q[2], NRows(mask)),
                            pick(q[3], NCols(mask))>>)
            ELSE At(mask, <<pick(q[1], Len(mask.pl)), pick(q[2], NRows(mask)),
                            pick(q[3], NCols(mask))>>)
    IN Build(dPa, LAMBDA q : AsSeq([c \in 1..Len(At(dPa, q)) |->
                                IF on(q, c) THEN At(dPa, q)[c] ELSE 0]))

\* The flow-consistency check of dynamics.get_masks: without a threshold, or
\* with threshold 0, nothing is discarded; otherwise the instances whose flow
\* error exceeds the threshold are. The flow error of instance l is l / 10.
FlowCheck(lab, thr) ==
    IF thr = NoneV \/ thr[1] <= 0 THEN lab
    ELSE Build(lab, LAMBDA q : IF At(lab, q) * thr[2] > 10 * thr[1] THEN 0
                               ELSE At(lab, q))

\* ---------------------------------------------------------- _compute_masks
\* mutant of CopyField: dP = dP.copy() left out
CopyFieldAliased(dPa) == [alias |-> TRUE, v |-> dPa]

\* An object reference to a field: alias tells whether in-place operations
\* on it write the caller's array.
CopyField(dPa) == [alias |-> FALSE, v |-> dPa]

\* mutant of Nonempty: the test left out
NonemptyAlways(mask) == TRUE

\* if np.any(mask)
Nonempty(mask) == AnyTrue(mask)

\* mutant of UseClustering: a diameter equal to the threshold does not
\* turn clustering on
UseClusteringBelow(cluster, d, diam_threshold) == cluster \/ d < diam_threshold

\* if d <= diam_threshold: cluster = True
UseClustering(cluster, d, diam_threshold) == cluster \/ d <= diam_threshold

\* mutant of FlowThresholdArg: the threshold handed on in 3D too
FlowThresholdArgAlways(flow_threshold, do_3D) == flow_threshold

\* threshold=flow_threshold if not do_3D else None
FlowThresholdArg(flow_threshold, do_3D) == IF do_3D THEN NoneV ELSE flow_threshold

\* budget handed to dynamics.follow_flows by the original algorithm
NiterArgDefault(niter) == <<niter>>

\* the skeleton algorithm passes no niter to dynamics.follow_flows
NiterArgSkel(niter) == <<>>

\* mutant of Sanitize: the hole filling left out
SanitizeNoFill(mask, min_size) == Renumber(RemoveSmall(mask, min_size))

\* mutant of Sanitize: fastremap.renumber left out
SanitizeNoRenumber(mask, min_size) == FillHolesAndRemoveSmallMasks(mask, min_size)

\* the cleanup at the end of _compute_masks
Sanitize(mask, min_size) == Renumber(FillHolesAndRemoveSmallMasks(mask, min_size))

NoP == [src |-> "none", shape |-> <<>>]

\* p = np.zeros([2,1,1])
PlaceholderP == [src |-> "placeholder", shape |-> <<2, 1, 1>>]

\* tr of dynamics.follow_flows: the positions of every step, when asked for
Trace(calc_trace, shape) == IF calc_trace THEN <<[of |-> "trace", shape |-> shape]>> ELSE <<>>

Raise(err, log, adv, dPafter) ==
    [st |-> "raise", err |-> err, mask |-> ZeroD, p |-> NoP, tr |-> <<>>,
     log |-> log, adv |-> adv, dPafter |-> dPafter, algo |-> "none",
     thr |-> NoneV, minsz |-> <<>>, pre |-> ZeroD, nonempty |-> FALSE,
     dshape |-> <<>>, resize |-> NoneV, seed |-> ZeroD, env |-> <<>>, signals |-> <<>>, nonfinite |-> <<>>, pin |-> NoP]

\* lines 776-784 and 791-796: resize, cleanup, return
Finish(lab, p, tr, log, adv, dPafter, algo, thr, o, e) ==
    LET resized == IF o.resize = NoneV THEN lab
                   ELSE ResizeNearest(lab, o.resize[1], o.resize[2])
        pr == IF o.resize = NoneV THEN p
              ELSE [src |-> p.src, shape |-> <<2>> \o Shape(resized)]
    IN [st |-> "ok", err |-> "", mask |-> Sanitize(resized, o.min_size),
        p |-> pr, tr |-> tr, log |-> log \o <<"sanitize">>, adv |-> adv,
        dPafter |-> dPafter, algo |-> algo, thr |-> thr, minsz |-> <<o.min_size>>,
        pre |-> resized, nonempty |-> TRUE, dshape |-> <<>>, resize |-> o.resize,
        seed |-> ZeroD, env |-> <<>>, signals |-> <<>>, nonfinite |-> <<>>, pin |-> NoP]

\* models_logger.info('No cell pixels found.'), the one message of a call
\* that is not verbose
NoCellPixels == "No cell pixels found."

\* lines 785-796: no foreground pixel
EmptyBranch(dPa, o, e) ==
    IF o.resize = NoneV /\ e.np = "new"
    THEN Raise("TypeError", <<"seed">>, <<>>, dPa)
    ELSE IF o.resize = NoneV /\ ~e.lenient
    THEN Raise("ValueError", <<"seed", "sanitize">>, <<>>, dPa)
    ELSE [st |-> "ok", err |-> "",
          mask |-> IF o.resize = NoneV THEN ZeroD
                   ELSE Sanitize(Zeros(o.resize), o.min_size),
          p |-> PlaceholderP, tr |-> <<>>, log |-> <<"seed", "sanitize">>,
          adv |-> <<>>, dPafter |-> dPa, algo |-> "none", thr |-> NoneV,
          minsz |-> <<o.min_size>>,
          pre |-> IF o.resize = NoneV THEN ZeroD ELSE Zeros(o.resize),
          nonempty |-> FALSE, dshape |-> <<>>, resize |-> o.resize,
          seed |-> ZeroD, env |-> <<>>, signals |-> <<>>, nonfinite |-> <<>>, pin |-> NoP]

\* lines 674-687: the original algorithm
DefaultBranch(dPa, mask, pin, niter, o, e) ==
    LET given == pin # NoP
        odd == IF given THEN SubSeq(pin.shape, 2, Len(pin.shape)) # Shape(mask)
               ELSE Shape(dPa) # Shape(mask)
        adv == IF given THEN <<>> ELSE <<NiterArgDefault(niter)>>
        log1 == IF given THEN <<"seed">> ELSE <<"seed", "advect">>
        p == IF given THEN pin ELSE [src |-> "advect", shape |-> FullShape(dPa)]
        tr == IF given THEN <<>> ELSE Trace(o.calc_trace, FullShape(dPa))
    IN IF ~given /\ ~BroadcastOK(FullShape(dPa), Shape(mask))
       THEN Raise("ValueError", <<"seed">>, <<>>, dPa)
       ELSE IF odd /\ ~e.lenient
       THEN Raise("IndexError", log1 \o <<"cluster">>, adv, dPa)
       ELSE Finish(FlowCheck(ClusterLabels(mask, e.kind, e.k),
                             FlowThresholdArg(o.flow_threshold, o.do_3D)),
                   p, tr, log1 \o <<"cluster">>, adv, dPa, "hist",
                   FlowThresholdArg(o.flow_threshold, o.do_3D), o, e)

\* lines 689-770: the skeleton algorithm. p of dynamics.follow_flows goes
\* unchecked into newinds (739): with a non-finite coordinate (e.nan)
\* DBSCAN.fit (746) rejects its input, and np.rint(newinds).astype(int) (750)
\* yields what the build makes of it (e.cast): the smallest integer, which
\* is no index of skelmask (752), or 0, which is one.
\* mutant of SkelFlowThreshold: the caller's threshold is applied
SkelFlowThresholdApplied(flow_threshold) == flow_threshold

\* lines 772-774: the quality control of the new algorithm is commented out,
\* no threshold reaches a flow-consistency check
SkelFlowThreshold(flow_threshold) == NoneV

\* mutant of UnpackLyLx: a mask of any rank is taken
UnpackLyLxAnyRank(mask) == TRUE

\* line 690, Ly,Lx = mask.shape: the shape has exactly two entries
UnpackLyLx(mask) == mask.rank = 2

SkelBranch(dPa, mask, niter, o, e) ==
    LET ref == CopyField(dPa)
        after == IF ref.alias THEN MulMask(dPa, mask) ELSE dPa
        cluster == UseClustering(o.cluster, e.d, o.diam_threshold)
        odd == Shape(dPa) # Shape(mask)
        log1 == <<"seed", "condition", "advect">>
        adv == <<NiterArgSkel(niter)>>
    IN IF ~UnpackLyLx(mask)
       THEN Raise("ValueError", <<"seed">>, <<>>, dPa)
       ELSE IF ~InPlaceOK(FullShape(dPa), Shape(mask))
       THEN Raise("ValueError", <<"seed">>, <<>>, dPa)
       ELSE IF odd /\ ~e.lenient
       THEN Raise("IndexError", log1, adv, after)
       ELSE IF e.nan /\ cluster
       THEN [Raise("ValueError", log1 \o <<"cluster">>, adv, after)
                EXCEPT !.nonfinite = <<"DBSCAN.fit">>]
       ELSE IF e.nan /\ e.cast = "min"
       THEN [Raise("IndexError", log1 \o <<"cluster">>, adv, after)
                EXCEPT !.nonfinite = <<"skelmask index">>]
       ELSE [Finish(FlowCheck(ClusterLabels(mask, e.kind, e.k),
                              SkelFlowThreshold(o.flow_threshold)),
                    [src |-> "advect", shape |-> FullShape(dPa)],
                    Trace(o.calc_trace, FullShape(dPa)), log1 \o <<"cluster">>,
                    adv, after, IF cluster THEN "dbscan" ELSE "cc",
                    SkelFlowThreshold(o.flow_threshold), o, e)
                EXCEPT !.nonfinite = IF e.nan THEN <<"skelmask index">> ELSE <<>>]

\* _compute_masks(dP, dist, bd, p, niter, ...): o holds the keyword arguments
\* and self.nclasses, e what the collaborators and the numpy build do
\* The result is [st, err, mask, p, tr] with the record of the call: the
\* components run (log), the niter arguments handed on (adv), the caller's
\* vector field after the call (dPafter), the clustering algorithm (algo),
\* the flow threshold handed on (thr), the min_size of the cleanup (minsz),
\* the grid given to the cleanup (pre), whether a foreground pixel exists
\* (nonempty), the shape of dist (dshape), the resize argument and the
\* foreground mask of the Seed Selector (seed), the answers of the
\* collaborators (env), the messages and warnings of the call (signals) and
\* what a non-finite landing coordinate was handed to (nonfinite).
ComputeMasks(dPa, dista, bda, pin, niter, o, e) ==
    LET mask == SeedSelect(dista, o.skel, o.dist_threshold)
        r == IF Nonempty(mask)
             THEN IF ~o.skel THEN DefaultBranch(dPa, mask, pin, niter, o, e)
                  ELSE SkelBranch(dPa, mask, niter, o, e)
             ELSE EmptyBranch(dPa, o, e)
    IN [r EXCEPT !.nonempty = AnyTrue(mask), !.dshape = Shape(dista),
                 !.resize = o.resize, !.seed = mask, !.env = <<e>>, !.pin = pin,
                 !.signals = IF Nonempty(mask) THEN <<>> ELSE <<NoCellPixels>>]

\* before the first call of _compute_masks
NoCall == [Raise("", <<>>, <<>>, ZeroD) EXCEPT !.st = "none"]

\* ------------------------------------------------------ Volumetric Stitcher
LabelsOf(g) == {At(Arr2(g), q) : q \in Pix(Arr2(g))} \ {0}

Inter(g, l, h, m) ==
    Cardinality({q \in Pix(Arr2(g)) : At(Arr2(g), q) = l /\ At(Arr2(h), q) = m})

Union(g, l, h, m) ==
    Cardinality({q \in Pix(Arr2(g)) : At(Arr2(g), q) = l \/ At(Arr2(h), q) = m})

\* mutant of StitchPlane: every label of cur takes a new global id
StitchPlaneAllFresh(prev, cur, thr, mmax) ==
    << AsSeq([y \in 1..Len(cur) |-> AsSeq([u \in 1..Len(cur[1]) |->
           IF cur[y][u] = 0 THEN 0
           ELSE mmax + Cardinality({k \in LabelsOf(cur) : k <= cur[y][u]})])]),
       mmax + Cardinality(LabelsOf(cur)) >>

\* plane cur relabelled against the stitched plane prev: a label whose best
\* IoU with a label of prev exceeds thr takes that label, any other label
\* takes the next unused global id; the result is <<plane, counter>>
StitchPlane(prev, cur, thr, mmax) ==
    LET ls == LabelsOf(cur)
        ms == LabelsOf(prev)
        over(l) == {m \in ms :
                      Inter(cur, l, prev, m) * thr[2] > thr[1] * Union(cur, l, prev, m)}
        best(l) == CHOOSE m \in over(l) : \A n \in over(l) :
                      LET im == Inter(cur, l, prev, m) * Union(cur, l, prev, n)
                          in == Inter(cur, l, prev, n) * Union(cur, l, prev, m)
                      IN im > in \/ (im = in /\ m <= n)
        fresh == {l \in ls : over(l) = {}}
        to == AsMap([l \in ls |-> IF over(l) # {} THEN best(l)
                                  ELSE mmax + Cardinality({k \in fresh : k <= l})])
    IN << AsSeq([y \in 1..Len(cur) |-> AsSeq([x \in 1..Len(cur[1]) |->
              IF cur[y][x] = 0 THEN 0 ELSE to[cur[y][x]]])]),
          mmax + Cardinality(fresh) >>

MaxOf(S) == IF S = {} THEN 0 ELSE CHOOSE n \in S : \A m \in S : m <= n

RECURSIVE StitchFrom(_, _, _, _)
StitchFrom(pls, k, thr, mmax) ==
    IF k > Len(pls) THEN pls
    ELSE LET r == StitchPlane(pls[k - 1], pls[k], thr, mmax)
         IN StitchFrom([pls EXCEPT ![k] = r[1]], k + 1, thr, r[2])

\* utils.stitch3D(masks, stitch_threshold): planes in index order, once
Stitch3D(masks, thr) ==
    [masks EXCEPT !.pl = StitchFrom(masks.pl, 2, thr, MaxOf(LabelsOf(masks.pl[1])))]

\* ------------------------------------------------------------------ state
VARIABLES
    x,        \* the image stack given to eval: [nimg, pat], nimg planes of ImgLy x ImgLx
    args,     \* the keyword arguments of eval
    nclasses, \* self.nclasses
    pc,       \* position in eval / _run_cp
    i,        \* loop index of _run_cp
    rescale,  \* rescale after eval's defaulting
    niter,    \* niter of _run_cp
    dP, dist, bd,   \* field stacks of _run_cp
    masks, p, tr,   \* outputs of _run_cp
    log,      \* components that have run, in order: [c, plane]
    adv,      \* niter arguments handed to dynamics.follow_flows, in call order
    used,     \* min_size values the Mask Sanitizer was run with, in call order
    out,      \* the latest call of _compute_masks: its result and its record
    ret,      \* what eval returned
    err,      \* the exception that ended eval, if any
    self,     \* attributes of the model object that eval assigns: [batch_size, net]
    th        \* the evaluations started on the model object: one per thread, or
              \* one per image of a list with the arguments handed to it

vars == <<self, th, x, args, nclasses, pc, i, rescale, niter, dP, dist, bd, masks, p, tr,
          log, adv, used, out, ret, err>>

\* batch_size default of eval
DefaultBatchSize == 8

\* the model object after construction: batch_size not yet assigned (0), the
\* network holding the weights the constructor left in it (-1)
NewModel == [batch_size |-> 0, net |-> -1]

Rescales == {NoneV, <<3, 4>>}
MinSizes == {-1, 5}
StitchThresholds == {<<0, 1>>, <<1, 2>>}
\* flow_threshold default of eval, 0.4
DefaultFlowThreshold == <<2, 5>>
FlowThresholds == {DefaultFlowThreshold, <<1, 10>>}

ArgSets ==
    [do_3D : BOOLEAN, skel : BOOLEAN, resample : BOOLEAN, rescale : Rescales,
     stitch_threshold : StitchThresholds, min_size : MinSizes,
     calc_trace : BOOLEAN, cluster : BOOLEAN, compute_masks : BOOLEAN,
     flow_threshold : FlowThresholds,
     dist_threshold : {DefaultDistThreshold},
     diam_threshold : {DefaultDiamThreshold}]

\* a call of eval; a flow_threshold other than the default comes with the
\* defaults of rescale, calc_trace, stitch_threshold and compute_masks, the
\* cluster flag with these defaults and the default flow_threshold
Init ==
    /\ self = NewModel /\ th = <<>>
    /\ x \in [nimg : 1..MaxPlanes, pat : 1..Len(Patterns)]
    /\ args \in {a \in ArgSets :
                    \/ a.flow_threshold = DefaultFlowThreshold /\ ~a.cluster
                    \/ /\ a.rescale = NoneV /\ ~a.calc_trace
                       /\ a.stitch_threshold[1] = 0 /\ a.compute_masks
                       /\ (a.flow_threshold = DefaultFlowThreshold \/ ~a.cluster)}
    /\ nclasses = 3
    /\ pc = "eval"
    /\ i = 0
    /\ rescale = NoneV
    /\ niter = NoneV
    /\ dP = ZeroD /\ dist = ZeroD /\ bd = ZeroD
    /\ masks = ZeroD /\ p = <<>> /\ tr = <<>>
    /\ log = <<>> /\ adv = <<>> /\ used = <<>>
    /\ out = NoCall
    /\ ret = NoneV
    /\ err = ""

\* int(n * r) for a rational r
ScaleInt(n, r) == (n * r[1]) \div r[2]

\* extent of the field stacks of the 2D path along an axis of n pixels:
\* shape[k] if resample else int(shape[k] * rescale)
FieldDim(n, resample, r) == IF resample THEN n ELSE ScaleInt(n, r)

ZeroVecGrid(n, ly, lx) ==
    AsSeq([y \in 1..ly |-> AsSeq([u \in 1..lx |-> AsSeq([c \in 1..n |-> 0])])])

\* eval, single image: rescale defaulting, then _run_cp up to the network loop
EvalBegin ==
    /\ pc = "eval"
    /\ rescale' = IF args.rescale = NoneV THEN <<1, 1>> ELSE args.rescale
    /\ IF args.do_3D
       THEN UNCHANGED <<dP, dist, bd>>
       ELSE LET ly == FieldDim(ImgLy, args.resample, rescale')
                lx == FieldDim(ImgLx, args.resample, rescale')
            IN /\ dP' = Arr3(AsSeq([z \in 1..x.nimg |-> ZeroVecGrid(2, ly, lx)]))
               /\ dist' = Zeros(<<x.nimg, ly, lx>>)
               /\ bd' = Zeros(<<x.nimg, ly, lx>>)
    /\ pc' = "nets"
    /\ i' = 1
    /\ self' = [self EXCEPT !.batch_size = DefaultBatchSize]
    /\ UNCHANGED <<th, x, args, nclasses, niter, masks, p, tr, log, adv, used, out,
                   ret, err>>

\* log entries of the components named, for plane k (0: the whole stack)
Tag(names, k) == AsSeq([n \in 1..Len(names) |-> [c |-> names[n], plane |-> k]])

\* _run_cp, do_3D: the fields of the whole volume
Run3D ==
    /\ pc = "nets" /\ args.do_3D
    /\ dist' = Arr3(AsSeq([z \in 1..x.nimg |->
                              DistPlane(PatternOf(x.pat, z), ImgLy, ImgLx)]))
    /\ dP' = Arr3(AsSeq([z \in 1..x.nimg |-> FlowPlane(3, ImgLy, ImgLx)]))
    /\ bd' = Zeros(<<x.nimg, ImgLy, ImgLx>>)
    /\ log' = log \o Tag(<<"net3D">>, 0)
    /\ pc' = "alloc"
    /\ UNCHANGED <<self, th, x, args, nclasses, i, rescale, niter, masks, p, tr, adv,
                   used, out, ret, err>>

\* mutant of RunNets: the network loop left after its first turn
RunNetsFirstPlaneOnly ==
    /\ pc = "nets" /\ ~args.do_3D /\ i <= x.nimg
    /\ LET ly == NRows(dist)
           lx == NCols(dist)
       IN /\ dist' = [dist EXCEPT !.pl[i] = DistPlane(PatternOf(x.pat, i), ly, lx)]
          /\ dP' = [dP EXCEPT !.pl[i] = FlowPlane(2, ly, lx)]
          /\ bd' = IF nclasses = 4 THEN [bd EXCEPT !.pl[i] = BoundaryPlane(ly, lx)]
                   ELSE bd
    /\ log' = log \o Tag(<<"net">>, i)
    /\ i' = 1
    /\ pc' = "alloc"
    /\ UNCHANGED <<self, th, x, args, nclasses, rescale, niter, masks, p, tr, adv,
                   used, out, ret, err>>

\* _run_cp, 2D: one turn of the network loop
RunNets ==
    /\ pc = "nets" /\ ~args.do_3D /\ i <= x.nimg
    /\ LET ly == NRows(dist)
           lx == NCols(dist)
       IN /\ dist' = [dist EXCEPT !.pl[i] = DistPlane(PatternOf(x.pat, i), ly, lx)]
          /\ dP' = [dP EXCEPT !.pl[i] = FlowPlane(2, ly, lx)]
          /\ bd' = IF nclasses = 4 THEN [bd EXCEPT !.pl[i] = BoundaryPlane(ly, lx)]
                   ELSE bd
    /\ log' = log \o Tag(<<"net">>, i)
    /\ i' = IF i = x.nimg THEN 1 ELSE i + 1
    /\ pc' = IF i = x.nimg THEN "alloc" ELSE "nets"
    /\ UNCHANGED <<self, th, x, args, nclasses, rescale, niter, masks, p, tr, adv,
                   used, out, ret, err>>

\* niter = 200 if do_3D else (1 / rescale * 200)
NiterOf(do_3D, r) == IF do_3D THEN <<BaseNiter, 1>> ELSE <<BaseNiter * r[2], r[1]>>

\* resize = [shape[1], shape[2]] if not resample else None
ResizeArg(resample) == IF resample THEN NoneV ELSE <<ImgLy, ImgLx>>

\* _run_cp: compute_masks test, niter, the empty output stacks
AllocMasks ==
    /\ pc = "alloc"
    /\ IF args.compute_masks
       THEN /\ niter' = NiterOf(args.do_3D, rescale)
            /\ masks' = IF args.do_3D THEN masks ELSE Zeros(<<x.nimg, ImgLy, ImgLx>>)
            /\ p' = IF args.do_3D THEN p ELSE AsSeq([z \in 1..x.nimg |-> NoP])
            /\ tr' = IF args.do_3D THEN tr ELSE AsSeq([z \in 1..x.nimg |-> <<>>])
            /\ pc' = "masks"
            /\ i' = 1
       ELSE /\ masks' = Empty1D
            /\ p' = <<>>
            /\ pc' = "ret"
            /\ UNCHANGED <<niter, tr, i>>
    /\ UNCHANGED <<self, th, x, args, nclasses, rescale, dP, dist, bd, log, adv, used, out,
                   ret, err>>

\* what the collaborators can answer in one call of _compute_masks
LabelChoices ==
    {<<"col", k>> : k \in 0..MaxLabel} \cup {<<"row", 2>>, <<"corner", 2>>}

\* estimated mean diameters, at and above diam_threshold
Diams == {DefaultDiamThreshold, DefaultDiamThreshold + 1}

\* nonempty: the labels vary and, for one labelling of the skeleton regime,
\* the diameter; empty: the numpy build and the tolerance of the
\* collaborators for a 0-d array vary
Envs(nonempty, skel) ==
    IF nonempty
    THEN {[kind |-> c[1][1], k |-> c[1][2], d |-> c[2], np |-> "new",
           lenient |-> FALSE, nan |-> FALSE, cast |-> "min"] :
            c \in {c \in LabelChoices \X Diams :
                     c[2] > DefaultDiamThreshold \/ (skel /\ c[1] = <<"col", 1>>)}}
    ELSE {[kind |-> "col", k |-> 0, d |-> DefaultDiamThreshold + 1, np |-> n,
           lenient |-> l, nan |-> FALSE, cast |-> "min"] :
            n \in {"old", "new"}, l \in BOOLEAN}

Plane(a, k) == Arr2(a.pl[k])

\* the 2D call passes no min_size: _compute_masks runs with its default
MinSizeArg2D(min_size) == DefaultMinSize

\* the 3D call passes min_size=min_size
MinSizeArg3D(min_size) == min_size

\* keyword arguments of the call of _compute_masks in the plane loop
Opts2D ==
    [skel |-> args.skel, calc_trace |-> args.calc_trace, cluster |-> args.cluster,
     dist_threshold |-> args.dist_threshold, flow_threshold |-> args.flow_threshold,
     diam_threshold |-> args.diam_threshold, do_3D |-> FALSE,
     min_size |-> MinSizeArg2D(args.min_size), resize |-> ResizeArg(args.resample),
     nclasses |-> nclasses]

\* keyword arguments of the call of _compute_masks on a volume
Opts3D ==
    [skel |-> args.skel, calc_trace |-> args.calc_trace, cluster |-> args.cluster,
     dist_threshold |-> args.dist_threshold, flow_threshold |-> args.flow_threshold,
     diam_threshold |-> args.diam_threshold, do_3D |-> args.do_3D,
     min_size |-> MinSizeArg3D(args.min_size), resize |-> NoneV,
     nclasses |-> nclasses]

\* masks[i] = mask on the np.uint16 stack: a 0-d array is broadcast, a plane
\* of the stack's shape is stored value by value
AssignOK(mask, ly, lx) == mask.rank = 0 \/ Shape(mask) = <<ly, lx>>

AssignPlane(mask, ly, lx) ==
    IF mask.rank = 0 THEN ZerosGrid(ly, lx)
    ELSE AsSeq([y \in 1..ly |-> AsSeq([u \in 1..lx |-> mask.pl[1][y][u] % MaskModulus])])

\* _run_cp, 2D: one turn of the mask loop
ComputeMasksPlane ==
    /\ pc = "masks" /\ ~args.do_3D /\ i <= x.nimg
    /\ \E e \in Envs(Nonempty(SeedSelect(Plane(dist, i), args.skel, args.dist_threshold)),
                     args.skel) :
      \E r \in {ComputeMasks(Plane(dP, i), Plane(dist, i), Plane(bd, i), NoP,
                              niter, Opts2D, e)} :
        LET ok == r.st = "ok" /\ AssignOK(r.mask, ImgLy, ImgLx)
        IN /\ out' = r
           /\ log' = log \o Tag(r.log, i)
           /\ adv' = adv \o r.adv
           /\ used' = used \o r.minsz
           /\ dP' = [dP EXCEPT !.pl[i] = r.dPafter.pl[1]]
           /\ IF ok
              THEN /\ masks' = [masks EXCEPT !.pl[i] = AssignPlane(r.mask, ImgLy, ImgLx)]
                   /\ p' = [p EXCEPT ![i] = r.p]
                   /\ tr' = [tr EXCEPT ![i] = r.tr]
                   /\ i' = i + 1
                   /\ pc' = IF i = x.nimg THEN "stitch" ELSE "masks"
                   /\ err' = err
              ELSE /\ pc' = "failed"
                   /\ err' = IF r.st = "ok" THEN "ValueError" ELSE r.err
                   /\ UNCHANGED <<masks, p, tr, i>>
    /\ UNCHANGED <<self, th, x, args, nclasses, rescale, niter, dist, bd, ret>>

\* _run_cp, do_3D: the one call of _compute_masks
ComputeMasks3D ==
    /\ pc = "masks" /\ args.do_3D
    /\ \E e \in Envs(Nonempty(SeedSelect(dist, args.skel, args.dist_threshold)),
                     args.skel) :
      \E r \in {ComputeMasks(dP, dist, bd, NoP, niter, Opts3D, e)} :
           /\ out' = r
           /\ log' = log \o Tag(r.log, 0)
           /\ adv' = adv \o r.adv
           /\ used' = used \o r.minsz
           /\ dP' = r.dPafter
           /\ IF r.st = "ok"
              THEN /\ masks' = r.mask
                   /\ p' = <<r.p>>
                   /\ tr' = r.tr
                   /\ pc' = "ret"
                   /\ err' = err
              ELSE /\ pc' = "failed"
                   /\ err' = r.err
                   /\ UNCHANGED <<masks, p, tr>>
    /\ UNCHANGED <<self, th, x, args, nclasses, i, rescale, niter, dist, bd, ret>>

\* mutant of StitchCond: the threshold test left out
StitchCondAnyThreshold(thr, nimg) == nimg > 1

\* if stitch_threshold > 0 and nimg > 1
StitchCond(thr, nimg) == thr[1] > 0 /\ nimg > 1

\* mutant of StitchStep: the cleanup run once more on the stitched stack
StitchStepSanitizerLast ==
    /\ pc = "stitch"
    /\ IF StitchCond(args.stitch_threshold, x.nimg)
       THEN /\ masks' = Sanitize(Stitch3D(masks, args.stitch_threshold), -1)
            /\ log' = log \o Tag(<<"stitch", "sanitize">>, 0)
       ELSE UNCHANGED <<masks, log>>
    /\ pc' = "ret"
    /\ UNCHANGED <<self, th, x, args, nclasses, i, rescale, niter, dP, dist, bd, p, tr, adv,
                   used, out, ret, err>>

\* _run_cp, 2D: after the mask loop
StitchStep ==
    /\ pc = "stitch"
    /\ IF StitchCond(args.stitch_threshold, x.nimg)
       THEN /\ masks' = Stitch3D(masks, args.stitch_threshold)
            /\ log' = log \o Tag(<<"stitch">>, 0)
       ELSE UNCHANGED <<masks, log>>
    /\ pc' = "ret"
    /\ UNCHANGED <<self, th, x, args, nclasses, i, rescale, niter, dP, dist, bd, p, tr, adv,
                   used, out, ret, err>>

\* a.squeeze(): a stack of one plane becomes the plane (every other axis of
\* the arrays of this model has more than one entry)
Squeeze(a) == IF a.rank = 3 /\ Len(a.pl) = 1 THEN Arr2(a.pl[1]) ELSE a

\* return of _run_cp, then of eval: masks, flows, styles
Return ==
    /\ pc = "ret"
    /\ ret' = [masks |-> Squeeze(masks), styles |-> "styles",
               flows |-> [hsv |-> "dx_to_circ", dP |-> Squeeze(dP),
                          dist |-> Squeeze(dist), p |-> p, bd |-> Squeeze(bd)]]
    /\ pc' = "done"
    /\ UNCHANGED <<self, th, x, args, nclasses, i, rescale, niter, dP, dist, bd, masks, p, tr,
                   log, adv, used, out, err>>

Next ==
    \/ EvalBegin
    \/ Run3D
    \/ RunNets
    \/ AllocMasks
    \/ ComputeMasksPlane
    \/ ComputeMasks3D
    \/ StitchStep
    \/ Return

Spec == Init /\ [][Next]_vars

\* ------------------------------------------- _compute_masks called directly
\* spatial shapes of the arrays handed to a direct call
FieldShapes == {<<ImgLy, ImgLx>>, <<ImgLy - 1, ImgLx>>, <<1, 1>>}

\* scalar fields of a direct call: a plane of any of the shapes, or a stack
\* of MaxPlanes planes of the image's shape
DirectDists ==
    {Arr2(DistPlane(Patterns[n], s[1], s[2])) : n \in 1..Len(Patterns), s \in FieldShapes}
    \cup {Arr3(AsSeq([z \in 1..MaxPlanes |-> DistPlane(Patterns[n], ImgLy, ImgLx)])) :
            n \in 1..Len(Patterns)}

\* vector fields of a direct call: two components per pixel of a plane
DirectFlows ==
    {Arr2(FlowPlane(2, s[1], s[2])) : s \in FieldShapes \ {<<1, 1>>}}

\* a caller about to call _compute_masks(dP, dist, bd, niter=200,
\* skel=..., resize=...) with arrays of its own
InitCM ==
    /\ self = NewModel /\ th = <<>>
    /\ x = [nimg |-> 1, pat |-> 1]
    /\ args \in {a \in ArgSets :
                    /\ ~a.do_3D /\ a.rescale = NoneV /\ a.stitch_threshold = <<0, 1>>
                    /\ a.min_size = -1 /\ ~a.calc_trace /\ a.compute_masks
                    /\ ~a.cluster}
    /\ nclasses = 3
    /\ pc = "direct"
    /\ i = 1
    /\ rescale = <<1, 1>>
    /\ niter = <<DefaultNiter, 1>>
    /\ dP \in DirectFlows
    /\ dist \in DirectDists
    /\ bd = dist
    /\ masks = ZeroD /\ p = <<>> /\ tr = <<>>
    /\ log = <<>> /\ adv = <<>> /\ used = <<>>
    /\ out = NoCall
    /\ ret = NoneV
    /\ err = ""

\* what the collaborators and the numpy build can answer in a direct call;
\* in the skeleton regime the Advection Engine may return a non-finite
\* coordinate
EnvsCM(skel) ==
    {[kind |-> "col", k |-> k, d |-> DefaultDiamThreshold + 1, np |-> n,
      lenient |-> l, nan |-> FALSE, cast |-> "min"] :
        k \in 1..2, n \in {"old", "new"}, l \in BOOLEAN}
    \cup (IF ~skel THEN {}
          ELSE {[kind |-> "col", k |-> 1, d |-> d, np |-> "new", lenient |-> FALSE,
                 nan |-> TRUE, cast |-> c] : d \in Diams, c \in {"min", "zero"}})

\* the argument p of a direct call: left out, or a position grid of the
\* shape of the scalar field
SuppliedP(dista) == {NoP, [src |-> "caller", shape |-> <<2>> \o Shape(dista)]}

\* the call and its return or its exception
DirectCall ==
    /\ pc = "direct"
    /\ \E e \in EnvsCM(args.skel) : \E pin \in SuppliedP(dist) :
      \E r \in {ComputeMasks(dP, dist, bd, pin, niter, Opts2D, e)} :
           /\ out' = r
           /\ log' = Tag(r.log, 0)
           /\ adv' = r.adv
           /\ used' = r.minsz
           /\ dP' = r.dPafter
           /\ masks' = IF r.st = "ok" THEN r.mask ELSE masks
           /\ p' = IF r.st = "ok" THEN <<r.p>> ELSE p
           /\ tr' = IF r.st = "ok" THEN r.tr ELSE tr
           /\ pc' = IF r.st = "ok" THEN "called" ELSE "failed"
           /\ err' = r.err
    /\ UNCHANGED <<self, th, x, args, nclasses, i, rescale, niter, dist, bd, ret>>

NextCM == DirectCall

SpecCM == InitCM /\ [][NextCM]_vars

\* ------------------------------- the Sanitizer and the Stitcher on label grids
\* the 2 x 2 block of pixels whose labels vary
CoreCells == {<<2, 2>>, <<2, 3>>, <<3, 2>>, <<3, 3>>}

Borders == {"closed", "gap", "none"}

Cores == [1..4 -> 0..2]

\* A label plane: the core block holds `core`; the outermost pixels hold
\* label 1 ("closed"), label 1 but for the background pixel <<1, 2>> ("gap"),
\* or background ("none"); every other pixel holds label 1.
LabelGrid(border, core) ==
    AsSeq([y \in 1..ImgLy |-> AsSeq([u \in 1..ImgLx |->
        IF <<y, u>> \in CoreCells THEN core[2 * (y - 2) + (u - 1)]
        ELSE IF y \in {1, ImgLy} \/ u \in {1, ImgLx}
        THEN (IF border = "none" \/ (border = "gap" /\ <<y, u>> = <<1, 2>>)
              THEN 0 ELSE 1)
        ELSE 1])])

\* the plane next to g in a stack: g itself, one instance on the background
\* of g, or g with its rows in reverse order
SecondPlane(g, kind) ==
    AsSeq([y \in 1..Len(g) |-> AsSeq([u \in 1..Len(g[1]) |->
        IF kind = "same" THEN g[y][u]
        ELSE IF kind = "disjoint" THEN (IF g[y][u] = 0 THEN 1 ELSE 0)
        ELSE g[Len(g) - y + 1][u]])])

\* a caller holding a label plane to clean up (second = "none"), or a stack
\* of two label planes to stitch with threshold 0.5
InitLG ==
    /\ self = NewModel /\ th = <<>>
    /\ x \in [border : Borders, core : Cores,
               second : {"none", "same", "disjoint", "flipped"}]
    /\ args \in {a \in ArgSets :
                    /\ ~a.do_3D /\ a.rescale = NoneV /\ a.stitch_threshold = <<1, 2>>
                    /\ ~a.calc_trace /\ a.compute_masks /\ ~a.skel /\ ~a.resample
                    /\ a.flow_threshold = DefaultFlowThreshold /\ ~a.cluster
                    /\ (x.second # "none" => a.min_size = -1)}
    /\ nclasses = 3
    /\ pc = "grids"
    /\ i = 1
    /\ rescale = <<1, 1>>
    /\ niter = <<DefaultNiter, 1>>
    /\ dP = ZeroD /\ dist = ZeroD /\ bd = ZeroD
    /\ masks = IF x.second = "none" THEN Arr2(LabelGrid(x.border, x.core))
               ELSE Arr3(<<LabelGrid(x.border, x.core),
                           SecondPlane(LabelGrid(x.border, x.core), x.second)>>)
    /\ p = <<>> /\ tr = <<>>
    /\ log = <<>> /\ adv = <<>> /\ used = <<>>
    /\ out = NoCall
    /\ ret = <<>>
    /\ err = ""

\* the cleanup of lines 794-795 applied to the plane, up to twice; ret keeps
\* the grids it was applied to
SanitizeGrid ==
    /\ pc = "grids" /\ x.second = "none" /\ Len(log) < 2
    /\ masks' = Sanitize(masks, args.min_size)
    /\ ret' = Append(ret, masks)
    /\ log' = log \o Tag(<<"sanitize">>, 0)
    /\ used' = Append(used, args.min_size)
    /\ UNCHANGED <<self, th, x, args, nclasses, pc, i, rescale, niter, dP, dist, bd, p, tr,
                   adv, out, err>>

\* utils.stitch3D applied to the stack; ret keeps the stack it was applied to
StitchGrids ==
    /\ pc = "grids" /\ x.second # "none" /\ log = <<>>
    /\ masks' = Stitch3D(masks, args.stitch_threshold)
    /\ ret' = <<masks>>
    /\ log' = Tag(<<"stitch">>, 0)
    /\ UNCHANGED <<self, th, x, args, nclasses, pc, i, rescale, niter, dP, dist, bd, p, tr,
                   adv, used, out, err>>

NextLG ==
    \/ SanitizeGrid
    \/ StitchGrids

SpecLG == InitLG /\ [][NextLG]_vars

\* ------------------------------------------------ concurrent evaluations
\* Two or more threads call eval(x, batch_size, net_avg) with a single image
\* on one model object built from a built-in model type, so that
\* self.pretrained_model is a list (line 107). Each thread record keeps its
\* position in eval, its arguments and the attributes of self that it has
\* written and read so far.
NThreads == 2
Threads == 1..NThreads
BatchSizes == {DefaultBatchSize, 4}

ThreadStart(b, avg) ==
    [pc |-> "eval", batch_size |-> b, net_avg |-> avg, wrote |-> {}, read |-> {}]

InitPar ==
    /\ self = NewModel
    /\ th \in [Threads -> {ThreadStart(b, avg) : b \in BatchSizes, avg \in BOOLEAN}]
    /\ x = [nimg |-> 1, pat |-> 1]
    /\ args \in {a \in ArgSets : a.flow_threshold = DefaultFlowThreshold /\ ~a.cluster
                                 /\ a.rescale = NoneV /\ ~a.do_3D /\ ~a.skel
                                 /\ ~a.calc_trace /\ a.compute_masks
                                 /\ a.min_size = -1 /\ a.stitch_threshold[1] = 0
                                 /\ ~a.resample}
    /\ nclasses = 3
    /\ pc = "threads"
    /\ i = 0
    /\ rescale = NoneV
    /\ niter = NoneV
    /\ dP = ZeroD /\ dist = ZeroD /\ bd = ZeroD
    /\ masks = ZeroD /\ p = <<>> /\ tr = <<>>
    /\ log = <<>> /\ adv = <<>> /\ used = <<>>
    /\ out = NoCall
    /\ ret = NoneV
    /\ err = ""

EvalVars == <<x, args, nclasses, pc, i, rescale, niter, dP, dist, bd, masks, p,
              tr, log, adv, used, out, ret, err>>

\* line 531: self.batch_size = batch_size
ParAssignBatchSize(t) ==
    /\ pc = "threads" /\ th[t].pc = "eval"
    /\ self' = [self EXCEPT !.batch_size = th[t].batch_size]
    /\ th' = [th EXCEPT ![t].pc = "load",
                        ![t].wrote = @ \cup {"batch_size"}]
    /\ UNCHANGED EvalVars

\* lines 534-537: with a list of pretrained models and net_avg off, the
\* first model's weights are loaded into self.net
ParLoadModel(t) ==
    /\ pc = "threads" /\ th[t].pc = "load"
    /\ IF ~th[t].net_avg
       THEN /\ self' = [self EXCEPT !.net = 0]
            /\ th' = [th EXCEPT ![t].pc = "run",
                                ![t].read = @ \cup {"pretrained_model", "gpu"},
                                ![t].wrote = @ \cup {"net"}]
       ELSE /\ self' = self
            /\ th' = [th EXCEPT ![t].pc = "run",
                                ![t].read = @ \cup {"pretrained_model"}]
    /\ UNCHANGED EvalVars

\* lines 540-561: _run_cp, which reads self.nclasses (618, 691)
ParRunCp(t) ==
    /\ pc = "threads" /\ th[t].pc = "run"
    /\ th' = [th EXCEPT ![t].pc = "ret", ![t].read = @ \cup {"nclasses"}]
    /\ UNCHANGED <<self, EvalVars>>

\* line 565: return
ParReturn(t) ==
    /\ pc = "threads" /\ th[t].pc = "ret"
    /\ th' = [th EXCEPT ![t].pc = "done"]
    /\ UNCHANGED <<self, EvalVars>>

NextPar ==
    \E t \in Threads :
        \/ ParAssignBatchSize(t)
        \/ ParLoadModel(t)
        \/ ParRunCp(t)
        \/ ParReturn(t)

SpecPar == InitPar /\ [][NextPar]_vars

\* ------------------------------------------------ eval on a list of images
\* lines 485-524: eval given a list calls itself once per image, in index
\* order, handing on every keyword argument, and appends what each call
\* returns. An image is named by its number of planes.
MaxImages == 3
ImageLists ==
    UNION {[1..n -> 1..MaxPlanes] : n \in 1..MaxImages}

\* Python values of the channels argument: an int, or a list or a numpy
\* array of values
PyInt(k) == [type |-> "int", val |-> <<k>>]
PyList(vals) == [type |-> "list", val |-> vals]
PyArray(vals) == [type |-> "ndarray", val |-> vals]

\* the channel pair meant for image j of a list (as in the docstring,
\* lines 395-401)
ChannelPair(j) == <<PyInt(j % 4), PyInt(0)>>

\* channels arguments for a list of n images: one pair for all images, or n
\* pairs, each container a list or a numpy array
ChannelChoices(n) ==
    {PyList(<<PyInt(2), PyInt(3)>>), PyArray(<<PyInt(2), PyInt(3)>>),
     PyList(AsSeq([j \in 1..n |-> PyList(ChannelPair(j))])),
     PyList(AsSeq([j \in 1..n |-> PyArray(ChannelPair(j))])),
     PyArray(AsSeq([j \in 1..n |-> PyArray(ChannelPair(j))]))}

\* lines 491-493 and 1026-1028:
\* channels[i] if (len(channels)==len(x) and (isinstance(channels[i], list)
\* and isinstance(channels[i], np.ndarray)) and len(channels[i])==2)
\* else channels
ChannelsArg(channels, j, n) ==
    IF /\ Len(channels.val) = n
       /\ (channels.val[j].type = "list" /\ channels.val[j].type = "ndarray")
       /\ Len(channels.val[j].val) = 2
    THEN channels.val[j]
    ELSE channels

InitList ==
    /\ self = NewModel /\ th = <<>>
    /\ x \in UNION {{[imgs |-> l, channels |-> c] : c \in ChannelChoices(Len(l))} :
                        l \in ImageLists}
    /\ args \in {a \in ArgSets : a.flow_threshold = DefaultFlowThreshold /\ ~a.cluster
                                 /\ a.min_size = -1 /\ ~a.calc_trace}
    /\ nclasses = 3
    /\ pc = "list"
    /\ i = 1
    /\ rescale = NoneV
    /\ niter = NoneV
    /\ dP = ZeroD /\ dist = ZeroD /\ bd = ZeroD
    /\ masks = ZeroD /\ p = <<>> /\ tr = <<>>
    /\ log = <<>> /\ adv = <<>> /\ used = <<>>
    /\ out = NoCall
    /\ ret = <<>>
    /\ err = ""

\* how the evaluation of one image can end: returning, or with one of the
\* exceptions that _compute_masks raises, which it can with a mask
\* reconstruction in the skeleton regime, on a volume or without a resize
\* target
ImageOutcomes(a) ==
    IF a.compute_masks /\ (a.skel \/ a.do_3D \/ a.resample)
    THEN {"ok", "ValueError", "TypeError"}
    ELSE {"ok"}

\* one turn of the loop of line 489: self.eval(x[i], ...) and the appends
ListEval ==
    /\ pc = "list" /\ i <= Len(x.imgs)
    /\ self' = [self EXCEPT !.batch_size = DefaultBatchSize]
    /\ log' = log \o Tag(<<"eval">>, i)
    /\ th' = Append(th, [image |-> i,
                         channels |-> ChannelsArg(x.channels, i, Len(x.imgs))])
    /\ \E o \in ImageOutcomes(args) :
         IF o = "ok"
         THEN /\ ret' = Append(ret, [masks |-> i, styles |-> i, flows |-> i])
              /\ i' = i + 1
              /\ UNCHANGED <<pc, err>>
         ELSE /\ pc' = "failed"
              /\ err' = o
              /\ UNCHANGED <<ret, i>>
    /\ UNCHANGED <<x, args, nclasses, rescale, niter, dP, dist, bd, masks, p,
                   tr, adv, used, out>>

\* line 503: return masks, styles, flows
ListReturn ==
    /\ pc = "list" /\ i > Len(x.imgs)
    /\ pc' = "done"
    /\ UNCHANGED <<self, th, x, args, nclasses, i, rescale, niter, dP, dist, bd,
                   masks, p, tr, log, adv, used, out, ret, err>>

NextList ==
    \/ ListEval
    \/ ListReturn

\* eval on a stack of planes or on a list of images
InitEval == Init \/ InitList
NextEval == Next \/ NextList
SpecEval == InitEval /\ [][NextEval]_vars

\* ------------------------------------- divergence of the conditioned field
\* lines 717-730 on one plane of ImgLy x ImgLx pixels. Pixel coordinates
\* (Y, X) and flat indices count from 0 as in the code; grids are indexed
\* from 1.
\* pad = 1
Pad == 1

\* foreground masks: the rectangles of the plane
RectMasks ==
    {Arr2(AsSeq([y \in 1..ImgLy |-> AsSeq([u \in 1..ImgLx |->
          y \in r[1]..r[2] /\ u \in r[3]..r[4]])])) :
        r \in {r \in (1..ImgLy) \X (1..ImgLy) \X (1..ImgLx) \X (1..ImgLx) :
                  r[1] <= r[2] /\ r[3] <= r[4]}}

\* dP after 'dP *= mask' and normalize_field: zero outside the mask, and on
\* the mask a value that names the pixel, <<dP[0], dP[1]>>
ConditionedField(mask) ==
    Arr2(AsSeq([y \in 1..NRows(mask) |-> AsSeq([u \in 1..NCols(mask) |->
        IF mask.pl[1][y][u]
        THEN <<(y - 1) * NCols(mask) + u, 100 + (y - 1) * NCols(mask) + u>>
        ELSE <<0, 0>>])]))

\* Y, X = np.nonzero(mask), in raster order
NonzeroPix(mask) ==
    LET fg == {q \in Pix(mask) : At(mask, q)}
        ord(q) == (q[2] - 1) * NCols(mask) + q[3]
    IN AsSeq([n \in 1..Cardinality(fg) |->
           LET q == CHOOSE q \in fg : Cardinality({r \in fg : ord(r) < ord(q)}) = n - 1
           IN <<q[2] - 1, q[3] - 1>>])

\* length of Tx and Ty: (Ly+2*pad)*(Lx+2*pad)
BufferLen(ly, lx) == (ly + 2 * Pad) * (lx + 2 * Pad)

\* np.reshape(dP[c].copy(), Ly*Lx)[k]
FlatField(dPa, c, k) ==
    dPa.pl[1][(k \div NCols(dPa)) + 1][(k % NCols(dPa)) + 1][c]

\* Tx and Ty (c = 2 and c = 1): zeros, then T[Y*Lx+X] = reshape(dP[c])[Y*Lx+X]
\* for the pixels of the mask
TapBuffer(dPa, mask, c) ==
    LET lx == NCols(mask)
        set == {q[1] * lx + q[2] : q \in {NonzeroPix(mask)[n] : n \in 1..Len(NonzeroPix(mask))}}
    IN AsMap([k \in 0..(BufferLen(NRows(mask), lx) - 1) |->
           IF k \in set THEN FlatField(dPa, c, k) ELSE 0])

\* numpy indexing of a 1-d array of n entries: a negative index counts from
\* the end, an index outside -n..n-1 raises IndexError (-1 here)
PyIndex(k, n) == IF 0 <= k /\ k < n THEN k
                 ELSE IF -n <= k /\ k < 0 THEN k + n
                 ELSE -1

\* the flat indices of the eight taps of line 727-728 for pixel (Y, X):
\* Ty[(Y+d)*Lx+X] and Tx[Y*Lx+X+d] for d in 2, 1, -1, -2
TapIndex(c, Y, X, d, lx) == IF c = 1 THEN (Y + d) * lx + X ELSE Y * lx + X + d

TapOffsets == {2, 1, -1, -2}

\* what the taps of pixel (Y, X) read: the buffer index and the value
TapsOf(dPa, mask, Y, X) ==
    LET n == BufferLen(NRows(mask), NCols(mask))
        T == AsMap([c \in 1..2 |-> TapBuffer(dPa, mask, c)])
    IN AsMap([t \in (1..2) \X TapOffsets |->
          LET k == PyIndex(TapIndex(t[1], Y, X, t[2], NCols(mask)), n)
          IN [index |-> k, val |-> IF k = -1 THEN 0 ELSE T[t[1]][k]]])

InitDiv ==
    /\ self = NewModel /\ th = <<>>
    /\ x = [nimg |-> 1, pat |-> 1]
    /\ args \in {a \in ArgSets : a.flow_threshold = DefaultFlowThreshold /\ ~a.cluster
                                 /\ a.rescale = NoneV /\ ~a.do_3D /\ a.skel
                                 /\ ~a.calc_trace /\ a.compute_masks
                                 /\ a.min_size = -1 /\ a.stitch_threshold[1] = 0
                                 /\ ~a.resample}
    /\ nclasses = 3
    /\ pc = "div"
    /\ i = 1
    /\ rescale = NoneV
    /\ niter = NoneV
    /\ masks \in RectMasks
    /\ dP = ConditionedField(masks)
    /\ dist = ZeroD /\ bd = ZeroD
    /\ p = <<>> /\ tr = <<>>
    /\ log = <<>> /\ adv = <<>> /\ used = <<>>
    /\ out = NoCall
    /\ ret = <<>>
    /\ err = ""

\* the element of line 727-728 for the i-th pixel of the mask
DivergenceAt ==
    /\ pc = "div" /\ i <= Len(NonzeroPix(masks))
    /\ LET q == NonzeroPix(masks)[i]
       IN ret' = <<[pix |-> q, taps |-> TapsOf(dP, masks, q[1], q[2])]>>
    /\ i' = i + 1
    /\ UNCHANGED <<self, th, x, args, nclasses, pc, rescale, niter, dP, dist, bd,
                   masks, p, tr, log, adv, used, out, err>>

\* line 729: the divergence of every pixel of the mask is computed
DivergenceDone ==
    /\ pc = "div" /\ i > Len(NonzeroPix(masks))
    /\ pc' = "normalize"
    /\ UNCHANGED <<self, th, x, args, nclasses, i, rescale, niter, dP, dist, bd,
                   masks, p, tr, log, adv, used, out, ret, err>>

NextDiv ==
    \/ DivergenceAt
    \/ DivergenceDone

SpecDiv == InitDiv /\ [][NextDiv]_vars

\* --------------------------------- labelling steps of the skeleton algorithm
\* lines 739-784 on one plane of SkLy x SkLx pixels, wide enough to have
\* pixels outside the border band. Sets of pixels hold positions <<1, y, x>>.
SkLy == 11
SkLx == 11

\* iterations of binary_dilation for the border band (757)
BandWidth == 5
\* iterations of binary_opening (765)
OpeningIterations == 3

SkPix == {<<1, y, u>> : y \in 1..SkLy, u \in 1..SkLx}

\* scipy.ndimage.binary_dilation(input, border_value=bv, iterations=n) with
\* the default cross-shaped structuring element: S is the set of True pixels
RECURSIVE BinaryDilation(_, _, _)
BinaryDilation(S, bv, n) ==
    IF n = 0 THEN S
    ELSE BinaryDilation(
             S \cup {q \in SkPix : \E r \in Nbrs(q, TRUE) :
                                      r \in S \/ (r \notin SkPix /\ bv)},
             bv, n - 1)

\* scipy.ndimage.binary_erosion, likewise
RECURSIVE BinaryErosion(_, _, _)
BinaryErosion(S, bv, n) ==
    IF n = 0 THEN S
    ELSE BinaryErosion(
             {q \in S : \A r \in Nbrs(q, TRUE) :
                            r \in S \/ (r \notin SkPix /\ bv)},
             bv, n - 1)

\* scipy.ndimage.binary_opening(input, border_value=bv, iterations=n):
\* n erosions, then n dilations
BinaryOpening(S, bv, n) == BinaryDilation(BinaryErosion(S, bv, n), bv, n)

\* border_mask = binary_dilation(zeros, border_value=1, iterations=5)
BorderMask == BinaryDilation({}, TRUE, BandWidth)

\* bd > -1 of a boundary output that marks the main diagonal and column 2
BoundarySplit == {q \in SkPix : q[2] = q[3] \/ q[3] = 2}

\* mutant of CorrectBorder: border_px written back to the whole skeleton
CorrectBorderEverywhere(skelmask, ncl) ==
    LET border_px == skelmask \cap BorderMask
    IN IF ncl = 4 THEN border_px \ BoundarySplit
       ELSE BinaryOpening(border_px, FALSE, OpeningIterations)

\* lines 755-767: border_px[border_mask] = skelmask[border_mask]; with a
\* boundary output border_px[bd>-1] = 0, else binary_opening; then
\* skelmask[border_mask] = border_px[border_mask]
CorrectBorder(skelmask, ncl) ==
    LET border_px == skelmask \cap BorderMask
        fixed == IF ncl = 4 THEN border_px \ BoundarySplit
                 ELSE BinaryOpening(border_px, FALSE, OpeningIterations)
    IN (skelmask \ BorderMask) \cup (fixed \cap BorderMask)

\* foreground masks: rectangles <<y1, y2, x1, x2>> with corners on a coarse
\* set of coordinates
SkCoords(n) == {1, 4, (n + 1) \div 2, n}
SkRects ==
    {r \in SkCoords(SkLy) \X SkCoords(SkLy) \X SkCoords(SkLx) \X SkCoords(SkLx) :
        r[1] <= r[2] /\ r[3] <= r[4]}
RectPix(r) == {q \in SkPix : q[2] \in r[1]..r[2] /\ q[3] \in r[3]..r[4]}

\* a coordinate that is not finite
NaN == -1

\* Final positions the Advection Engine gives the pixels of the mask, as
\* <<2y, 2x>> (twice the coordinate), inside the grid when finite: every
\* pixel stays, moves to the middle column of the mask, to the diagonal, or
\* to the centre; or every pixel stays and the position of the first pixel
\* of the mask is not finite
LandKinds == {"stay", "column", "diag", "point", "nan"}
Landing(kind, r, q) ==
    IF kind = "nan" /\ q = <<1, r[1], r[3]>> THEN <<NaN, NaN>>
    ELSE IF kind \in {"stay", "nan"} THEN <<2 * q[2], 2 * q[3]>>
    ELSE IF kind = "column" THEN <<2 * q[2], r[3] + r[4]>>
    ELSE IF kind = "diag" THEN <<2 * q[2], 2 * Min2(q[2], SkLx)>>
    ELSE <<r[1] + r[2], r[3] + r[4]>>

\* the smallest integer, far below every index of the grid
IntMin == -2147483647

\* np.rint(v).astype(int) of the coordinate h / 2: to the nearest index, a
\* half to the even index of the 0-based coordinate; the cast of a
\* non-finite value is undefined and gives the smallest integer or index 0,
\* depending on the build
RInt(h, cast) ==
    LET h0 == h - 2
        k == (h0 - 1) \div 2
    IN IF h = NaN THEN (IF cast = "min" THEN IntMin ELSE 1)
       ELSE IF h0 % 2 = 0 THEN (h0 \div 2) + 1
       ELSE IF k % 2 = 0 THEN k + 1 ELSE k + 2

\* db.labels_ of DBSCAN for the pixels of the mask: one cluster, one cluster
\* and the first row noise (-1), or two clusters by column
DbKinds == {"one", "noise", "two"}
DbLabels(kind, r, q) ==
    IF kind = "one" THEN 0
    ELSE IF kind = "noise" THEN (IF q[2] = r[1] THEN -1 ELSE 0)
    ELSE q[3] % 2

\* the first pixel of S in raster order
FirstPix(S) == CHOOSE q \in S : \A r \in S : (q[2] - 1) * SkLx + q[3] <= (r[2] - 1) * SkLx + r[3]

\* skimage.measure.label(skelmask, connectivity=1): the 4-connected
\* components of S numbered from k in raster order of their first pixel
RECURSIVE LabelFrom(_, _, _)
LabelFrom(S, k, acc) ==
    IF S = {} THEN acc
    ELSE LET c == Grow({FirstPix(S)}, S, TRUE)
         IN LabelFrom(S \ c, k + 1, acc @@ AsMap([q \in c |-> k]))

Label4(S) ==
    LET m == LabelFrom(S, 1, <<>>)
    IN AsMap([q \in SkPix |-> IF q \in S THEN m[q] ELSE 0])

\* the label grid holding f[q] at the pixels of S and 0 elsewhere
SkGrid(S, f) ==
    Arr2(AsSeq([y \in 1..SkLy |-> AsSeq([u \in 1..SkLx |->
        IF <<1, y, u>> \in S THEN f[<<1, y, u>>] ELSE 0])]))

\* mask[inds[:,0],inds[:,1]] = LL[newinds[:,0],newinds[:,1]]
LookupLabels(LL, inds, cells) == AsMap([q \in inds |-> LL[cells[q]]])

\* mutant of DbscanLabels: the shift by one left out
DbscanLabelsUnshifted(kind, r, inds) == AsMap([q \in inds |-> DbLabels(kind, r, q)])

\* mask[inds[:,0],inds[:,1]] = labels+1
DbscanLabels(kind, r, inds) == AsMap([q \in inds |-> DbLabels(kind, r, q) + 1])

\* the locals of the call before follow_flows returns
NoLocals == [inds |-> {}, newinds |-> <<>>, cells |-> <<>>, before |-> {},
             skelmask |-> {}, LL |-> <<>>, lab |-> ZeroD]

\* a call in the skeleton regime with a non-empty mask, after the Field
\* Conditioner; resize is None or a larger plane
InitSK ==
    /\ self = NewModel /\ th = <<>>
    /\ x \in [rect : SkRects, land : LandKinds, db : DbKinds,
              cast : {"min", "zero"}, resize : {NoneV, <<SkLy + 1, SkLx + 1>>}]
    /\ x.land # "nan" => x.cast = "min"
    /\ args \in {a \in ArgSets : a.flow_threshold = DefaultFlowThreshold
                                 /\ a.rescale = NoneV /\ ~a.do_3D /\ a.skel
                                 /\ ~a.calc_trace /\ a.compute_masks
                                 /\ a.min_size = -1 /\ a.stitch_threshold[1] = 0
                                 /\ ~a.resample}
    /\ nclasses \in {3, 4}
    /\ args.cluster => (x.land \in {"stay", "nan"} /\ nclasses = 4)
    /\ ~args.cluster => x.db = "one"
    /\ pc = "advect"
    /\ i = 1
    /\ rescale = NoneV
    /\ niter = NoneV
    /\ dP = ZeroD /\ dist = ZeroD /\ bd = ZeroD
    /\ masks = ZeroD
    /\ p = <<>> /\ tr = <<>>
    /\ log = <<>> /\ adv = <<>> /\ used = <<>>
    /\ out = NoLocals
    /\ ret = <<>>
    /\ err = ""

SkUnchanged == UNCHANGED <<self, th, x, args, nclasses, i, rescale, niter, dP,
                           dist, bd, p, tr, adv, used, ret>>

\* lines 736-740: follow_flows, newinds, mask = np.zeros(...)
SkAdvect ==
    /\ pc = "advect"
    /\ out' = [out EXCEPT !.inds = RectPix(x.rect),
                          !.newinds = AsMap([q \in RectPix(x.rect) |->
                                                Landing(x.land, x.rect, q)])]
    /\ masks' = Zeros(<<SkLy, SkLx>>)
    /\ log' = log \o <<"advect">>
    /\ pc' = "cluster"
    /\ UNCHANGED err
    /\ SkUnchanged

\* lines 743-748: density clustering; DBSCAN.fit raises ValueError on a
\* coordinate that is not finite
SkDbscan ==
    /\ pc = "cluster"
    /\ UseClustering(args.cluster, DefaultDiamThreshold + 1, args.diam_threshold)
    /\ log' = log \o <<"dbscan">>
    /\ IF \E q \in out.inds : NaN \in {out.newinds[q][1], out.newinds[q][2]}
       THEN /\ pc' = "failed"
            /\ err' = "ValueError"
            /\ UNCHANGED <<masks, out>>
       ELSE /\ masks' = SkGrid(out.inds, DbscanLabels(x.db, x.rect, out.inds))
            /\ out' = [out EXCEPT !.lab = masks']
            /\ pc' = "resize"
            /\ UNCHANGED err
    /\ SkUnchanged

\* lines 750-752: the rounded landing cells and the skeleton mask; an
\* index outside the grid raises IndexError at 752
SkRint ==
    /\ pc = "cluster"
    /\ ~UseClustering(args.cluster, DefaultDiamThreshold + 1, args.diam_threshold)
    /\ LET cells == AsMap([q \in out.inds |->
                       <<1, RInt(out.newinds[q][1], x.cast),
                            RInt(out.newinds[q][2], x.cast)>>])
       IN IF \E q \in out.inds : cells[q] \notin SkPix
          THEN /\ out' = [out EXCEPT !.cells = cells]
               /\ pc' = "failed"
               /\ err' = "IndexError"
          ELSE /\ out' = [out EXCEPT !.cells = cells,
                                     !.skelmask = {cells[q] : q \in out.inds}]
               /\ pc' = "border"
               /\ UNCHANGED err
    /\ UNCHANGED <<masks, log>>
    /\ SkUnchanged

\* lines 754-767: the border-defect correction
SkBorder ==
    /\ pc = "border"
    /\ out' = [out EXCEPT !.before = out.skelmask,
                          !.skelmask = CorrectBorder(out.skelmask, nclasses)]
    /\ log' = log \o <<"border">>
    /\ pc' = "label"
    /\ UNCHANGED <<masks, err>>
    /\ SkUnchanged

\* lines 769-770: connected components and the lookup
SkLabel ==
    /\ pc = "label"
    /\ \E LL \in {Label4(out.skelmask)} :
         /\ masks' = SkGrid(out.inds, LookupLabels(LL, out.inds, out.cells))
         /\ out' = [out EXCEPT !.LL = LL, !.lab = masks']
    /\ log' = log \o <<"cc">>
    /\ pc' = "resize"
    /\ UNCHANGED err
    /\ SkUnchanged

\* lines 776-779: the optional resize, before the cleanup
SkResize ==
    /\ pc = "resize"
    /\ masks' = IF x.resize = NoneV THEN masks
                ELSE ResizeNearest(masks, x.resize[1], x.resize[2])
    /\ pc' = "sanitize"
    /\ UNCHANGED <<out, log, err>>
    /\ SkUnchanged

NextSK ==
    \/ SkAdvect
    \/ SkDbscan
    \/ SkRint
    \/ SkBorder
    \/ SkLabel
    \/ SkResize

SpecSK == InitSK /\ [][NextSK]_vars

\* ---------------------------------------------------------------- claims
Values(a) == {At(a, q) : q \in Pix(a)}

\* no negative value, and the positive values are 1..K
Dense(a) ==
    /\ \A v \in Values(a) : v >= 0
    /\ Values(a) \ {0} = 1..Cardinality(Values(a) \ {0})

\* component c ran in the latest call of _compute_masks
Ran(c) == \E n \in 1..Len(out.log) : out.log[n] = c

\* the Volumetric Stitcher ran
Stitched == \E n \in 1..Len(log) : log[n].c = "stitch"

\* C1: the label grid a call of _compute_masks returns holds no negative
\* value and its positive labels are exactly 1..K.
C1_DenseLabels == out.st = "ok" => Dense(out.mask)

\* a call returned a grid whose labels had a gap after the size filter
C1_Witness ==
    /\ out.st = "ok" /\ out.mask.rank # 0
    /\ Values(out.mask) # {0}
    /\ ~Dense(FillHolesAndRemoveSmallMasks(out.pre, out.minsz[1]))

\* C2: the cleanup of every call runs with the min_size the caller gave to
\* eval: the grid returned is the grid given to the cleanup with its holes
\* filled, the instances below that min_size discarded (none for -1) and the
\* rest renumbered.
C2_CallerMinSize ==
    (out.st = "ok" /\ out.mask.rank # 0) =>
        out.mask = Renumber(RemoveSmall(FillHoles(out.pre), args.min_size))

\* C3: a call on a scalar field without foreground pixel returns the all-zero
\* grid of the expected shape: the resize target, or the shape of the field.
C3_EmptyGivesZeros ==
    (out.st # "none" /\ ~out.nonempty) =>
        /\ out.st = "ok"
        /\ out.mask = Zeros(IF out.resize = NoneV THEN out.dshape ELSE out.resize)

\* C4, as stated: with an empty mask no component after the Seed Selector
\* runs, the Mask Sanitizer included.
C4_NothingAfterSeed == (out.st # "none" /\ ~out.nonempty) => out.log = <<"seed">>

\* C4, amended: with an empty mask neither the Field Conditioner nor the
\* Advection Engine nor the Instance Clusterer runs; the Mask Sanitizer is
\* the one component run after the Seed Selector, on the placeholder grid.
C4_OnlySanitizerAfterSeed ==
    (out.st # "none" /\ ~out.nonempty) =>
        /\ ~Ran("condition") /\ ~Ran("advect") /\ ~Ran("cluster")
        /\ out.st = "ok" => out.log = <<"seed", "sanitize">>

\* a call on an empty mask that returned
C4_Witness == out.st = "ok" /\ ~out.nonempty /\ Ran("sanitize")

\* C5: no call of _compute_masks changes the caller's vector, scalar or
\* boundary field.
C5_FieldsUnchanged ==
    [][pc = "masks" => (dP' = dP /\ dist' = dist /\ bd' = bd)]_vars

\* a skeleton call returned whose mask leaves out pixels with non-zero flow
C5_Witness ==
    /\ out.st = "ok" /\ out.nonempty /\ args.skel
    /\ out.algo \in {"cc", "dbscan"}
    /\ PatternOf(x.pat, 1) = "dot" /\ x.nimg = 1

\* the parts of the value eval returns
ResultParts == DOMAIN ret \cup DOMAIN ret.flows

\* C6: with calc_trace the value eval returns holds the trajectories of the
\* Advection Engine, without calc_trace it holds none.
C6_TraceReturned ==
    pc = "done" =>
        ((args.calc_trace /\ \E n \in 1..Len(log) : log[n].c = "advect")
            <=> "tr" \in ResultParts)

\* ceil(200 / r)
CeilBudget(r) == (BaseNiter * r[2] + r[1] - 1) \div r[1]

\* C7: every niter handed to the Advection Engine is the integer 200 on the
\* 3D path and the integer ceil(200 / rescale) on the 2D path.
C7_IterationBudget ==
    \A n \in 1..Len(adv) :
        /\ adv[n] # <<>>
        /\ adv[n][1][1] = adv[n][1][2] *
              (IF args.do_3D THEN BaseNiter ELSE CeilBudget(rescale))

\* the vector field and the scalar field of a direct call disagree in
\* spatial shape or in rank
Mismatch == Shape(dP) # Shape(dist)

\* C8: a call whose vector field and scalar field disagree in spatial shape
\* or in rank fails with InvalidInput before any component has run.
C8_InvalidInputBeforeSeed ==
    (pc \in {"called", "failed"} /\ Mismatch) =>
        /\ out.st = "raise"
        /\ out.err = "InvalidInput"
        /\ out.log = <<>>

\* C9, as stated: the Mask Sanitizer runs after the Volumetric Stitcher,
\* never before it, and is the last component to run.
C9_SanitizerAfterStitcher ==
    (pc = "done" /\ Stitched) =>
        /\ log[Len(log)].c = "sanitize"
        /\ \A m, n \in 1..Len(log) :
              (log[m].c = "sanitize" /\ log[n].c = "stitch") => n < m

\* C9, amended: the Mask Sanitizer runs at the end of every plane's
\* reconstruction, before the Volumetric Stitcher; the Stitcher runs last and
\* its output is returned.
C9_SanitizerBeforeStitcher ==
    (pc = "done" /\ Stitched) =>
        /\ log[Len(log)].c = "stitch"
        /\ \A z \in 1..x.nimg : \E m \in 1..Len(log) - 1 :
              log[m] = [c |-> "sanitize", plane |-> z]
        /\ ret.masks = Squeeze(masks)

\* a stitched stack was returned
C9_Witness == pc = "done" /\ Stitched

\* C10: the Volumetric Stitcher runs only on the 2D path, on a stack of more
\* than one plane, with stitch_threshold > 0.
C10_StitchOnlyFor2DStacks ==
    Stitched => (~args.do_3D /\ x.nimg > 1 /\ args.stitch_threshold[1] > 0)

\* the Stitcher ran on a stack with an instance in its second plane
C10_Witness == Stitched /\ Values(Plane(masks, 2)) # {0}

\* the stack of two label planes has been stitched
StitchedPair == log = Tag(<<"stitch">>, 0) /\ Len(ret) = 1

\* no pixel is labelled in both planes of the stack that was stitched
DisjointPair ==
    \A y \in 1..ImgLy, u \in 1..ImgLx :
        ret[1].pl[1][y][u] = 0 \/ ret[1].pl[2][y][u] = 0

\* C11: two adjacent planes stitched with threshold 0.5: of two identical
\* grids the second keeps, instance by instance, the labels of the first; of
\* two grids without overlap every instance of the second takes a new label
\* that no instance of the first plane carries, distinct instances distinct
\* labels.
C11_StitchIdenticalAndDisjoint ==
    StitchedPair =>
        LET g1 == ret[1].pl[1]
            g2 == ret[1].pl[2]
            s2 == masks.pl[2]
            cells == (1..ImgLy) \X (1..ImgLx)
        IN /\ masks.pl[1] = g1
           /\ g2 = g1 => s2 = g1
           /\ DisjointPair =>
                 /\ LabelsOf(s2) \cap LabelsOf(g1) = {}
                 /\ \A c \in cells : (s2[c[1]][c[2]] = 0) <=> (g2[c[1]][c[2]] = 0)
                 /\ \A c, d \in cells :
                       (g2[c[1]][c[2]] = g2[d[1]][d[2]])
                           <=> (s2[c[1]][c[2]] = s2[d[1]][d[2]])

\* a stack was stitched whose first plane holds labels 1 and 2 and whose
\* second plane holds an instance where the first has none
C11_Witness ==
    /\ StitchedPair /\ DisjointPair
    /\ LabelsOf(ret[1].pl[1]) = {1, 2}
    /\ LabelsOf(masks.pl[2]) = {3}

\* M is the foreground mask of the scalar field S: S > t in the default
\* regime; in the skeleton regime the pixels above t - 1 that are connected,
\* through pixels above t - 1, to a pixel above t
IsSeedMask(M, S, skel, t) ==
    /\ Shape(M) = Shape(S)
    /\ IF ~skel
       THEN \A q \in Pix(S) : At(M, q) <=> At(S, q) > t
       ELSE LET Hi == {q \in Pix(S) : At(S, q) > t}
                Lo == {q \in Pix(S) : At(S, q) > t - 1}
                In == {q \in Pix(M) : At(M, q)}
            IN /\ Hi \subseteq In
               /\ In \subseteq Lo
               /\ \A q \in In : Nbrs(q, FALSE) \cap Lo \subseteq In
               /\ Grow(Hi, In, FALSE) = In

\* C12: the foreground mask of every call of _compute_masks is the mask of
\* the scalar field of that call, of dist_threshold and of the regime.
C12_MaskFromField ==
    [][pc = "masks" =>
          IsSeedMask(out'.seed, IF args.do_3D THEN dist ELSE Plane(dist, i),
                     args.skel, args.dist_threshold)]_vars

\* a skeleton call whose mask holds a pixel whose value is the threshold
C12_Witness ==
    /\ out.st = "ok" /\ args.skel /\ x.nimg = 1
    /\ \E q \in Pix(out.seed) :
          At(out.seed, q) /\ At(dist, q) = args.dist_threshold

\* C13: on the 3D path no threshold reaches the flow-consistency check, and
\* the call returns the same label grid for every flow_threshold.
C13_FlowThresholdIgnoredIn3D ==
    (pc = "ret" /\ args.do_3D /\ out.st = "ok") =>
        /\ out.thr = NoneV
        /\ \A ft \in FlowThresholds :
              ComputeMasks(dP, dist, bd, NoP, niter,
                           [Opts3D EXCEPT !.flow_threshold = ft], out.env[1]).mask
                  = out.mask

\* a 3D call with the tight threshold returned more than one instance
C13_Witness ==
    /\ pc = "ret" /\ args.do_3D /\ out.st = "ok"
    /\ args.flow_threshold # DefaultFlowThreshold
    /\ Cardinality(Values(out.mask) \ {0}) >= 2

\* the cleanup has been applied twice to a label plane: ret[1] is the
\* plane, ret[2] the plane cleaned once, masks the plane cleaned twice
SanitizedTwice == pc = "grids" /\ Len(ret) = 2 /\ Len(log) = 2

\* the size filter of the first cleanup discarded no instance
NothingDiscarded ==
    RemoveSmall(FillHoles(ret[1]), args.min_size) = FillHoles(ret[1])

SanitizedOnce == pc = "grids" /\ Len(ret) = 1 /\ Len(log) = 1 /\ x.second = "none"

\* the background pixels of plane g that a path of background pixels joins
\* to the border of the plane
OpenBackground(g) ==
    LET bg == {q \in Pix(g) : At(g, q) = 0}
    IN Grow({q \in bg : q[2] \in {1, NRows(g)} \/ q[3] \in {1, NCols(g)}}, bg, TRUE)

\* C15: after the cleanup a background pixel set fully enclosed by one label
\* carries the label of the instance that encloses it (a positive label
\* unless the size filter discards that instance), and no background pixel
\* joined to the border by background pixels is filled.
C15_HolesFilledBorderKept ==
    SanitizedOnce =>
        LET g == ret[1]
            bg == {q \in Pix(g) : At(g, q) = 0}
            open == OpenBackground(g)
            region(q) == Grow({q}, bg, TRUE)
            around(q) == {At(g, r) :
                            r \in (UNION {Nbrs(c, TRUE) : c \in region(q)}) \ bg}
        IN /\ \A q \in open : At(masks, q) = 0
           /\ \A q \in bg \ open : \A r \in Pix(g) :
                 around(q) = {At(g, r)} =>
                    /\ At(masks, q) = At(masks, r)
                    /\ args.min_size = -1 => At(masks, q) > 0

\* one background pixel enclosed by label 1 was filled with label 1
C15_Witness ==
    /\ SanitizedOnce
    /\ x.border = "closed" /\ x.core = <<0, 1, 1, 1>>
    /\ At(ret[1], <<1, 2, 2>>) = 0 /\ At(masks, <<1, 2, 2>>) = 1

\* C16: the label grid a call of _compute_masks returns has the shape of the
\* scalar field the call was given.
C16_SameShapeAsField == out.st = "ok" => Shape(out.mask) = out.dshape

\* C17: a call whose mask is non-empty and whose clustering labels no pixel
\* returns the all-background grid and signals NoInstancesFound.
C17_NoInstancesSignalled ==
    (out.st = "ok" /\ out.nonempty /\ Values(out.pre) = {0}) =>
        /\ Values(out.mask) = {0}
        /\ \E n \in 1..Len(out.signals) : out.signals[n] = "NoInstancesFound"

\* the Advection Engine of a direct call on fields of one shape returned a
\* non-finite coordinate
NonFiniteLanding ==
    /\ pc \in {"called", "failed"} /\ Ran("advect") /\ ~Mismatch
    /\ out.env # <<>> /\ out.env[1].nan

\* C18: a non-finite landing coordinate is dropped before clustering: the
\* call returns, the coordinate reaches neither DBSCAN nor the index of the
\* skeleton mask, and no label is left.
C18_NonFiniteDropped ==
    NonFiniteLanding =>
        /\ out.st = "ok"
        /\ out.nonfinite = <<>>
        /\ Values(out.pre) = {0}

\* C19: two evaluations running concurrently on one model object share no
\* mutable state: no evaluation writes an attribute of the model object that
\* another one writes or reads.
C19_NoSharedMutableState ==
    \A t \in DOMAIN th : \A u \in DOMAIN th :
        t # u => th[t].wrote \cap (th[u].wrote \cup th[u].read) = {}

\* eval or _run_cp has ended, by returning or by raising
Terminated == pc \in {"done", "failed"}

\* the entries of log for component c
Entries(c) == SelectSeq(log, LAMBDA en : en.c = c)

\* component c ran for planes (or images) 1..k, once each and in index order
RanFor(c, k) == Entries(c) = AsSeq([j \in 1..k |-> [c |-> c, plane |-> j]])

\* every run of component c precedes every run of component d
Precedes(c, d) ==
    \A m \in 1..Len(log) : \A n \in 1..Len(log) :
        (log[m].c = c /\ log[n].c = d) => m < n

\* eval was given a list of images
GivenList == "imgs" \in DOMAIN x

\* a bound on the number of steps left: the position in the code, then the
\* turns left in the loop at that position
LoopBound == MaxPlanes + MaxImages + 2
PcRank ==
    CASE pc = "eval" -> 6
      [] pc = "nets" -> 5
      [] pc = "alloc" -> 4
      [] pc = "masks" -> 3
      [] pc = "stitch" -> 2
      [] pc \in {"ret", "list"} -> 1
      [] OTHER -> 0
StepsLeft == PcRank * LoopBound + (LoopBound - i)

\* the guards of the steps of eval: the statement at the current position
\* can be executed
CanStep ==
    \/ pc \in {"eval", "alloc", "stitch", "ret", "list"}
    \/ pc \in {"nets", "masks"} /\ (args.do_3D \/ i <= x.nimg)

\* C20 as stated: an evaluation that has ended has performed exactly n
\* per-image evaluations for a list of n images, and for a stack of nimg
\* planes exactly nimg field computations followed by exactly nimg mask
\* reconstructions.
C20_ExactlyNimgCalls ==
    Terminated =>
        IF GivenList
        THEN RanFor("eval", Len(x.imgs))
        ELSE /\ RanFor("net", x.nimg)
             /\ RanFor("seed", x.nimg)
             /\ Precedes("net", "seed")

\* what an evaluation that has ended has performed: list, 2D stack, volume
CallsPerformed ==
    IF GivenList
    THEN IF pc = "done" THEN RanFor("eval", Len(x.imgs))
         ELSE \E k \in 1..Len(x.imgs) : RanFor("eval", k)
    ELSE IF args.do_3D
    THEN /\ Len(Entries("net3D")) = 1 /\ Entries("net") = <<>>
         /\ Len(Entries("seed")) = IF args.compute_masks THEN 1 ELSE 0
         /\ Precedes("net3D", "seed")
    ELSE /\ RanFor("net", x.nimg)
         /\ Entries("net3D") = <<>>
         /\ Precedes("net", "seed")
         /\ IF ~args.compute_masks THEN Entries("seed") = <<>>
            ELSE IF pc = "done" THEN RanFor("seed", x.nimg)
            ELSE \E k \in 1..x.nimg : RanFor("seed", k)

\* C20, amended: every evaluation ends by itself (each step lowers a bound on
\* the steps left, and the next statement can be executed until eval has
\* returned or raised). A list of n images gets the per-image evaluations 1..k in order,
\* k = n unless one raises; a stack of nimg planes gets, on the 2D path,
\* exactly nimg field computations and then, if compute_masks is set, the
\* mask reconstructions of planes 1..k in order, k = nimg unless one raises;
\* with do_3D one field computation of the volume and at most one mask
\* reconstruction.
C20_TerminatesWithBoundedCalls ==
    /\ [](Terminated \/ CanStep)
    /\ [](Terminated => CallsPerformed)
    /\ [][StepsLeft' < StepsLeft /\ StepsLeft' >= 0]_vars

\* a list of several images of which one evaluation raised, or a stack of
\* several planes whose reconstruction ended at a later plane than the first
C20_Witness ==
    /\ Terminated
    /\ \/ GivenList /\ pc = "failed" /\ Len(Entries("eval")) > 1
       \/ ~GivenList /\ ~args.do_3D /\ pc = "done" /\ x.nimg > 1
          /\ RanFor("seed", x.nimg)

\* channels holds one pair per image of the list
PairPerImage ==
    /\ Len(x.channels.val) = Len(x.imgs)
    /\ \A j \in 1..Len(x.imgs) :
          x.channels.val[j].type # "int" /\ Len(x.channels.val[j].val) = 2

\* C21: eval given a list of n images evaluates image i with channels[i]
\* when channels holds n two-element pairs, and every image with channels
\* itself when channels is a single pair.
C21_ChannelsOfImage ==
    GivenList =>
        \A j \in 1..Len(th) :
            th[j].channels = IF PairPerImage THEN x.channels.val[th[j].image]
                             ELSE x.channels

\* number of clustering algorithms that ran in the latest call
ClusterRuns == Cardinality({n \in 1..Len(out.log) : out.log[n] = "cluster"})

\* the algorithm the regime, the cluster flag and the diameter comparison
\* call for
Called ==
    IF ~args.skel THEN "hist"
    ELSE IF args.cluster \/ out.env[1].d <= args.diam_threshold THEN "dbscan"
    ELSE "cc"

FieldAtOffset(c, Y, X, d) ==
    LET gy == IF c = 1 THEN Y + d ELSE Y
        gx == IF c = 1 THEN X ELSE X + d
    IN IF gy \in 0..(NRows(masks) - 1) /\ gx \in 0..(NCols(masks) - 1)
       THEN dP.pl[1][gy + 1][gx + 1][c]
       ELSE 0

\* C23: each of the eight stencil taps of a foreground pixel reads inside
\* the buffer, and reads the conditioned field at the pixel at its geometric
\* offset or zero padding outside the grid, never the value of a pixel of
\* another row.
C23_TapsReadGeometricNeighbours ==
    (pc = "div" /\ ret # <<>>) =>
        \A t \in (1..2) \X TapOffsets :
            /\ ret[1].taps[t].index # -1
            /\ ret[1].taps[t].val
                   = FieldAtOffset(t[1], ret[1].pix[1], ret[1].pix[2], t[2])

\* the border correction has just run
Corrected == pc = "label"

\* C24: the border-defect correction changes only pixels of the 5-pixel
\* band: with a boundary output it clears exactly the band pixels where
\* boundary > -1, otherwise the band pixels become the 3-iteration opening
\* of the band part of the skeleton; pixels outside the band keep their
\* value and no pixel is switched on.
C24_BorderCorrectionFrame ==
    Corrected =>
        /\ out.skelmask \subseteq out.before
        /\ out.skelmask \ BorderMask = out.before \ BorderMask
        /\ IF nclasses = 4
           THEN out.before \ out.skelmask = out.before \cap BorderMask \cap BoundarySplit
           ELSE out.skelmask \cap BorderMask
                  = BinaryOpening(out.before \cap BorderMask, FALSE, OpeningIterations)
                       \cap BorderMask

\* a skeleton with pixels on both sides of the band edge, of which the
\* correction cleared some in the band, and a boundary mark outside the band
C24_Witness ==
    /\ Corrected
    /\ out.before \ BorderMask # {}
    /\ out.before # out.skelmask
    /\ (out.before \ BorderMask) \cap BoundarySplit # {}

\* ---- the write of a plane's labels into the masks stack of _run_cp ----

\* the largest number of instances of a plane
MaxInstances == 65538

\* numbers of instances K of the plane _compute_masks returns: a few, and
\* those around the width of the stack's element type
InstanceCounts == 1..3 \cup (MaskModulus - 2)..MaxInstances

\* the labels of the plane that are followed through the write, ascending
WatchedLabels ==
    <<1, 2, 3>> \o AsSeq([j \in 1..(MaxInstances - MaskModulus + 3) |->
                             MaskModulus - 3 + j])

\* lines 794-796: the plane holds the labels 1..K after renumber
LabelsOfPlane(K) ==
    LET Present(v) == v <= K
    IN SelectSeq(WatchedLabels, Present)

\* line 641, masks[i] = maski with masks of np.uint16 (635): an integer
\* label is reduced modulo 2^16; the cast of a floating label that does not
\* fit is undefined and wraps, saturates or gives 0, depending on the build
ToUint16(v, dtype, cast) ==
    IF dtype = "int" \/ v < MaskModulus THEN v % MaskModulus
    ELSE IF cast = "wrap" THEN v % MaskModulus
    ELSE IF cast = "sat" THEN MaskModulus - 1
    ELSE 0

InitU16 ==
    /\ self = NewModel /\ th = <<>>
    /\ x \in {c \in [K : InstanceCounts, dtype : {"int", "float"},
                     cast : {"wrap", "sat", "zero"}] :
                 c.dtype = "int" => c.cast = "wrap"}
    /\ args \in {a \in ArgSets : a.flow_threshold = DefaultFlowThreshold /\ ~a.cluster
                                 /\ a.rescale = NoneV /\ ~a.do_3D /\ ~a.skel
                                 /\ ~a.calc_trace /\ a.compute_masks
                                 /\ a.min_size = -1 /\ a.stitch_threshold[1] = 0
                                 /\ ~a.resample}
    /\ nclasses = 3
    /\ pc = "store"
    /\ i = 1
    /\ rescale = NoneV
    /\ niter = NoneV
    /\ masks = <<>>
    /\ dP = ZeroD /\ dist = ZeroD /\ bd = ZeroD
    /\ p = <<>> /\ tr = <<>>
    /\ log = <<>> /\ adv = <<>> /\ used = <<>>
    /\ out = NoCall
    /\ ret = <<>>
    /\ err = ""

\* line 641: one element of the plane is written into the stack
StoreLabel ==
    /\ pc = "store" /\ i <= Len(LabelsOfPlane(x.K))
    /\ LET v == LabelsOfPlane(x.K)[i]
       IN masks' = Append(masks, [label |-> v,
                                  stored |-> ToUint16(v, x.dtype, x.cast)])
    /\ i' = i + 1
    /\ UNCHANGED <<self, th, x, args, nclasses, pc, rescale, niter, dP, dist, bd,
                   p, tr, log, adv, used, out, ret, err>>

\* line 641: the plane is written
StoreDone ==
    /\ pc = "store" /\ i > Len(LabelsOfPlane(x.K))
    /\ pc' = "stitch"
    /\ UNCHANGED <<self, th, x, args, nclasses, i, rescale, niter, dP, dist, bd,
                   masks, p, tr, log, adv, used, out, ret, err>>

NextU16 ==
    \/ StoreLabel
    \/ StoreDone

SpecU16 == InitU16 /\ [][NextU16]_vars

\* ---- SizeModel.train: the removal of the images with no masks ----

\* the largest number of training images, and of test images
MaxTrain == 4
MaxTest == 2

\* diameters utils.diameters gives the label images: 0.0 for no masks
Diameters == {0, 30, 60}

DiameterLists(n) == UNION {[1..k -> Diameters] : k \in 0..n}

\* del s[k]
DelAt(s, k) == SubSeq(s, 1, k - 1) \o SubSeq(s, k + 1, Len(s))

\* the images of a list, named by their position in the input
Images(n) == AsSeq([j \in 1..n |-> j])

\* lines 1145-1147: the lists as given and their diameters; run_test when
\* test data is given
InitTrain ==
    /\ self = NewModel /\ th = <<>>
    /\ x \in {c \in [diam_train : DiameterLists(MaxTrain) \ {<<>>},
                     diam_test : DiameterLists(MaxTest), run_test : BOOLEAN] :
                 c.run_test <=> c.diam_test # <<>>}
    /\ args \in {a \in ArgSets : a.flow_threshold = DefaultFlowThreshold /\ ~a.cluster
                                 /\ a.rescale = NoneV /\ ~a.do_3D /\ ~a.skel
                                 /\ ~a.calc_trace /\ a.compute_masks
                                 /\ a.min_size = -1 /\ a.stitch_threshold[1] = 0
                                 /\ ~a.resample}
    /\ nclasses = 3
    /\ pc = "train_loop"
    /\ i = 1
    /\ rescale = NoneV
    /\ niter = NoneV
    /\ masks = <<>>
    /\ dP = ZeroD /\ dist = ZeroD /\ bd = ZeroD
    /\ p = <<>> /\ tr = <<>>
    /\ log = <<>> /\ adv = <<>> /\ used = <<>>
    /\ out = [train_data |-> Images(Len(x.diam_train)),
              train_labels |-> Images(Len(x.diam_train)),
              test_data |-> Images(Len(x.diam_test)),
              test_labels |-> Images(Len(x.diam_test))]
    /\ ret = <<>>
    /\ err = ""

TrainUnchanged == UNCHANGED <<self, th, x, args, nclasses, rescale, niter, dP,
                              dist, bd, masks, p, tr, log, adv, used, ret>>

\* lines 1150-1153: one iteration of the loop over range(len(diam_train));
\* del of an index past the end of the list raises IndexError
RemoveTrain ==
    /\ pc = "train_loop" /\ i <= Len(x.diam_train)
    /\ IF x.diam_train[i] # 0
       THEN /\ i' = i + 1
            /\ UNCHANGED <<pc, out, err>>
       ELSE IF i > Len(out.train_data)
       THEN /\ pc' = "failed"
            /\ err' = "IndexError"
            /\ UNCHANGED <<i, out>>
       ELSE /\ out' = [out EXCEPT !.train_data = DelAt(@, i),
                                  !.train_labels = DelAt(@, i)]
            /\ i' = i + 1
            /\ UNCHANGED <<pc, err>>
    /\ TrainUnchanged

\* line 1154: the loop over the training images is over
RemoveTrainDone ==
    /\ pc = "train_loop" /\ i > Len(x.diam_train)
    /\ pc' = IF x.run_test THEN "test_loop" ELSE "styles"
    /\ i' = 1
    /\ UNCHANGED <<out, err>>
    /\ TrainUnchanged

\* lines 1155-1158: one iteration of the loop over range(len(diam_test))
RemoveTest ==
    /\ pc = "test_loop" /\ i <= Len(x.diam_test)
    /\ IF x.diam_test[i] # 0
       THEN /\ i' = i + 1
            /\ UNCHANGED <<pc, out, err>>
       ELSE IF i > Len(out.test_data)
       THEN /\ pc' = "failed"
            /\ err' = "IndexError"
            /\ UNCHANGED <<i, out>>
       ELSE /\ out' = [out EXCEPT !.test_data = DelAt(@, i),
                                  !.test_labels = DelAt(@, i)]
            /\ i' = i + 1
            /\ UNCHANGED <<pc, err>>
    /\ TrainUnchanged

\* line 1160: nimg = len(train_data), the styles are computed next
RemoveTestDone ==
    /\ pc = "test_loop" /\ i > Len(x.diam_test)
    /\ pc' = "styles"
    /\ i' = 1
    /\ UNCHANGED <<out, err>>
    /\ TrainUnchanged

NextTrain ==
    \/ RemoveTrain
    \/ RemoveTrainDone
    \/ RemoveTest
    \/ RemoveTestDone

SpecTrain == InitTrain /\ [][NextTrain]_vars

\* cell c is the index nearest to the coordinate h / 2 (either one for a half)
NearestCell(c, h) == h # NaN /\ 2 * c - h \in -1..1

\* C25: in connected-component mode every rounded landing cell used as an
\* index lies inside the grid, and two foreground pixels get the same
\* positive label exactly when their rounded landing cells lie in the same
\* 4-connected component of the corrected skeleton.
C25_LabelOfLandingComponent ==
    /\ out.cells # <<>> =>
          \A q \in out.inds :
              /\ out.cells[q] \in SkPix
              /\ NearestCell(out.cells[q][2], out.newinds[q][1])
              /\ NearestCell(out.cells[q][3], out.newinds[q][2])
    /\ (pc = "resize" /\ out.LL # <<>>) =>
          \A q \in out.inds : \A r \in out.inds :
              (At(out.lab, q) > 0 /\ At(out.lab, q) = At(out.lab, r))
                 <=> /\ out.cells[q] \in out.skelmask
                     /\ out.cells[r] \in Grow({out.cells[q]}, out.skelmask, TRUE)

\* C26: on the 2D path every label of a plane is stored unchanged in the
\* masks stack, for any number K of instances: distinct instances keep
\* distinct labels and no label wraps modulo 2^16.
C26_LabelsStoredUnchanged ==
    (pc \in {"store", "stitch"} /\ "K" \in DOMAIN x) =>
        /\ \A j \in 1..Len(masks) : masks[j].stored = masks[j].label
        /\ \A j \in 1..Len(masks) : \A k \in 1..Len(masks) :
               masks[j].label # masks[k].label => masks[j].stored # masks[k].stored

\* the images of the input whose diameter is not zero, in their order
NonZeroImages(diams) ==
    LET HasMasks(j) == diams[j] # 0
    IN SelectSeq(Images(Len(diams)), HasMasks)

\* C27: after the removal step of SizeModel.train, train_data and
\* train_labels hold exactly the images with a non-zero diameter in their
\* original order, the loop raises no index error, and entry i of the
\* diameter array is the diameter of the image now at index i.
C27_RemovalKeepsNonZeroInOrder ==
    "diam_train" \in DOMAIN x =>
        /\ err # "IndexError"
        /\ (pc \in {"test_loop", "styles"}) =>
              /\ out.train_data = NonZeroImages(x.diam_train)
              /\ out.train_labels = NonZeroImages(x.diam_train)
              /\ \A j \in 1..Len(out.train_data) :
                     x.diam_train[j] = x.diam_train[out.train_data[j]]

\* the step named s of the skeleton algorithm has run
Logged(s) == \E k \in 1..Len(log) : log[k] = s

\* the label grid lines 739-770 produced
Clustered == "rect" \in DOMAIN x /\ (Logged("dbscan") \/ Logged("cc")) /\ pc # "failed"

C29_SkeletonRejectsVolumes ==
    (out.st # "none" /\ args.skel /\ out.nonempty) =>
        /\ out.seed.rank = 3 =>
              /\ out.st = "raise" /\ out.err = "ValueError"
              /\ out.log = <<"seed">> /\ out.adv = <<>>
              /\ out.algo = "none" /\ out.mask = ZeroD
              /\ out.dPafter = dP
        /\ out.st = "ok" => out.seed.rank = 2

\* a volume with a foreground voxel was given in skeleton mode
C29_Witness ==
    /\ out.st = "raise" /\ args.skel /\ args.do_3D
    /\ out.nonempty /\ out.seed.rank = 3

\* C30: in skeleton mode the label grid _compute_masks returns depends
\* neither on flow_threshold nor on a position grid p the caller supplies:
\* no threshold reaches a flow-consistency check and the positions come from
\* the Advection Engine; in the default regime on 2D input the caller's
\* flow_threshold is handed to the clusterer and a supplied p replaces the
\* advection.
C30_SkelIgnoresThresholdAndP ==
    /\ []((pc = "called" /\ out.st = "ok" /\ out.nonempty) =>
            IF args.skel
            THEN /\ out.thr = NoneV
                 /\ out.p.src = "advect" /\ Ran("advect") /\ out.adv # <<>>
            ELSE /\ out.thr = args.flow_threshold
                 /\ out.pin = NoP => (out.p.src = "advect" /\ Ran("advect"))
                 /\ out.pin # NoP =>
                       (out.p.src = "caller" /\ ~Ran("advect") /\ out.adv = <<>>))
    /\ [][(pc = "direct" /\ args.skel) =>
            \A ft \in FlowThresholds : \A pin \in SuppliedP(dist) :
                LET r == ComputeMasks(dP, dist, bd, pin, niter,
                                      [Opts2D EXCEPT !.flow_threshold = ft],
                                      out'.env[1])
                IN r.st = out'.st /\ r.err = out'.err /\ r.pre = out'.pre
                   /\ r.mask = out'.mask /\ r.p = out'.p]_vars

\* a skeleton call given a position grid and the tight threshold found more
\* than one instance
C30_Witness ==
    /\ pc = "called" /\ out.st = "ok" /\ args.skel
    /\ out.pin # NoP /\ args.flow_threshold # DefaultFlowThreshold
    /\ Cardinality(Values(out.pre) \ {0}) >= 2

====
